---------------------------- MODULE Spec2Model ----------------------------
(***************************************************************************)
(* nav2_costmap_2d ObstacleLayer (plugins/obstacle_layer.cpp).             *)
(*                                                                         *)
(* World coordinates are exact rationals whose unit is 0.001 m, the        *)
(* epsilon the ray clipping subtracts from the map end; costs are the      *)
(* unsigned char values of cost_values.hpp.                                *)
(***************************************************************************)
EXTENDS Integers, Sequences, FiniteSets, TLC

(***************************************************************************)
(* Bounds of the model.                                                    *)
(***************************************************************************)
\* cells per side of the (square) local and master grids: size_x_, size_y_
Size == 3
\* resolution_ in units of 0.001 m
Res == 4
\* number of observation sources (one ObservationBuffer and one callback each)
NumSources == 2

(***************************************************************************)
(* Program constants.                                                      *)
(***************************************************************************)
FREE_SPACE == 0
LETHAL_OBSTACLE == 254
NO_INFORMATION == 255
\* the .001 subtracted from map_end_x / map_end_y
Epsilon == 1

size_x_ == Size
size_y_ == Size
resolution_ == Res
Cells == 0 .. (size_x_ * size_y_ - 1)

(***************************************************************************)
(* double arithmetic, modelled exactly: a value is <<n, d>> with d >= 0    *)
(* and gcd(n, d) = 1; d = 0 is a non-finite double:                        *)
(* <<1, 0>> = +inf, <<-1, 0>> = -inf, <<0, 0>> = NaN.                      *)
(***************************************************************************)
Abs(x) == IF x < 0 THEN -x ELSE x
Sign(x) == IF x > 0 THEN 1 ELSE IF x < 0 THEN -1 ELSE 0

RECURSIVE Gcd(_, _)
Gcd(a, b) == IF b = 0 THEN a ELSE Gcd(b, a % b)

Rat(n, d) ==
    IF d = 0 THEN <<Sign(n), 0>>
    ELSE LET g == Gcd(Abs(n), Abs(d))
             s == Sign(d)
         IN  <<(s * n) \div g, (s * d) \div g>>

R(i) == <<i, 1>>
NaN == <<0, 0>>
IsFinite(p) == p[2] # 0
IsNaN(p) == p = NaN

RNeg(p) == <<-p[1], p[2]>>
RAdd(p, q) ==
    IF p[2] = 0 /\ q[2] = 0 THEN (IF p = q THEN p ELSE NaN)
    ELSE IF IsNaN(p) \/ IsNaN(q) THEN NaN
    ELSE Rat(p[1] * q[2] + q[1] * p[2], p[2] * q[2])
RSub(p, q) == RAdd(p, RNeg(q))
RMul(p, q) ==
    IF IsNaN(p) \/ IsNaN(q) THEN NaN
    ELSE IF p[2] = 0 \/ q[2] = 0 THEN <<Sign(p[1]) * Sign(q[1]), 0>>
    ELSE Rat(p[1] * q[1], p[2] * q[2])
\* p / q; x / 0 is +-inf and 0 / 0 is NaN, as IEEE 754 division gives
RDiv(p, q) ==
    IF IsNaN(p) \/ IsNaN(q) THEN NaN
    ELSE IF p[2] = 0 /\ q[2] = 0 THEN NaN
    ELSE IF q[2] = 0 THEN R(0)
    ELSE IF p[2] = 0 THEN <<p[1] * (IF q[1] < 0 THEN -1 ELSE 1), 0>>
    ELSE Rat(p[1] * q[2], p[2] * q[1])
\* p < q; every comparison with NaN is false
RLt(p, q) ==
    IF IsNaN(p) \/ IsNaN(q) THEN FALSE
    ELSE IF p[2] = 0 /\ q[2] = 0 THEN p[1] < q[1]
    ELSE p[1] * q[2] < q[1] * p[2]
RLe(p, q) == ~IsNaN(p) /\ ~IsNaN(q) /\ ~RLt(q, p)
\* std::min(a, b) is (b < a) ? b : a, std::max(a, b) is (a < b) ? b : a
RMin(a, b) == IF RLt(b, a) THEN b ELSE a
RMax(a, b) == IF RLt(a, b) THEN b ELSE a
\* static_cast<int> of a finite non-negative double
RFloor(p) == p[1] \div p[2]

\* the largest k in lo .. hi with k * k <= n (lo * lo <= n)
RECURSIVE ISqrtIn(_, _, _)
ISqrtIn(n, lo, hi) ==
    IF lo >= hi THEN lo
    ELSE LET mid == (lo + hi + 1) \div 2
         IN  IF mid * mid <= n THEN ISqrtIn(n, mid, hi)
             ELSE ISqrtIn(n, lo, mid - 1)
ISqrt(n) == ISqrtIn(n, 0, 46340)
\* the nearest integer
RRound(p) == (2 * p[1] + p[2]) \div (2 * p[2])


(***************************************************************************)
(* State.                                                                  *)
(***************************************************************************)
VARIABLES
    \* configuration read by onInitialize
    enabled_, footprint_clearing_enabled_, max_obstacle_height_,
    combination_method_, rolling_window_, default_value_,
    marking_buffers_, clearing_buffers_, data_type_,
    \* Costmap2D members of the layer
    costmap_, origin_x_, origin_y_,
    \* ObstacleLayer / CostmapLayer members
    current_, static_marking_observations_, static_clearing_observations_,
    transformed_footprint_, extra_bounds_,
    \* one ObservationBuffer per source: its list, whether isCurrent() holds,
    \* the holder of its mutex
    observation_list_, is_current_, lock_,
    \* one sensor callback per source: its position and its cloud
    cb,
    \* the update-cycle thread: position, arguments and locals of
    \* updateBounds / updateCosts
    pc, robot, bounds, current, observations, clearing_observations, i, j,
    master_grid, window,
    \* what the environment can deliver, and how much of the run is left
    inputs, inputs_left, cycles_left,
    \* history of the running cycle: isCurrent() values read, cells cleared by
    \* raytracing, cells marked, observations traced, the last ray
    reads, cleared, marked, traced, ray,
    \* the bounds the caller has handed to the running updateBounds
    seed,
    \* the subscription of each source, the position of the host inside
    \* reset(), the last lifecycle call, and how many of them are left
    subscribed_, host, last_call, calls_left

cfg_vars == <<enabled_, footprint_clearing_enabled_, max_obstacle_height_,
              combination_method_, rolling_window_, default_value_,
              marking_buffers_, clearing_buffers_, data_type_, inputs>>
grid_vars == <<costmap_, origin_x_, origin_y_>>
static_vars == <<static_marking_observations_, static_clearing_observations_>>
buffer_vars == <<observation_list_, is_current_, lock_>>
hist_vars == <<reads, cleared, marked, traced, ray>>
cycle_vars == <<pc, robot, bounds, current, observations, clearing_observations,
                i, j, master_grid, window, cycles_left>>
life_vars == <<subscribed_, host, last_call, calls_left>>
vars == <<cfg_vars, grid_vars, static_vars, buffer_vars, hist_vars, cycle_vars,
          life_vars, seed, current_, transformed_footprint_, extra_bounds_, cb,
          inputs_left>>

Sources == 1 .. NumSources

(***************************************************************************)
(* Costmap2D geometry.                                                     *)
(***************************************************************************)
\* Costmap2D::getIndex
getIndex(mx, my) == my * size_x_ + mx

\* Costmap2D::worldToMap: the cell of a world point, or "none" when the
\* point is outside the grid
worldToMap(wx, wy) ==
    IF ~IsFinite(wx) \/ ~IsFinite(wy) THEN [ok |-> FALSE, x |-> 0, y |-> 0]
    ELSE IF RLt(wx, R(origin_x_)) \/ RLt(wy, R(origin_y_))
    THEN [ok |-> FALSE, x |-> 0, y |-> 0]
    ELSE LET mx == RFloor(RDiv(RSub(wx, R(origin_x_)), R(resolution_)))
             my == RFloor(RDiv(RSub(wy, R(origin_y_)), R(resolution_)))
         IN  IF mx < size_x_ /\ my < size_y_
             THEN [ok |-> TRUE, x |-> mx, y |-> my]
             ELSE [ok |-> FALSE, x |-> 0, y |-> 0]

\* Costmap2D::cellDistance: a world distance in cells, rounded
cellDistance(world_dist) == (2 * world_dist + resolution_) \div (2 * resolution_)

\* Layer::touch
touch(x, y, b) ==
    [min_x |-> RMin(x, b.min_x), min_y |-> RMin(y, b.min_y),
     max_x |-> RMax(x, b.max_x), max_y |-> RMax(y, b.max_y)]

\* Costmap2D::bresenham2D: the offsets visited, the first `end` steps and the
\* final cell
RECURSIVE bresenham2D(_, _, _, _, _, _, _)
bresenham2D(abs_da, abs_db, error_b, offset_a, offset_b, offset, end) ==
    IF end = 0 THEN {offset}
    ELSE LET e1 == error_b + abs_db
             wrap == e1 >= abs_da
         IN  {offset} \cup
             bresenham2D(abs_da, abs_db, IF wrap THEN e1 - abs_da ELSE e1,
                         offset_a, offset_b,
                         offset + offset_a + (IF wrap THEN offset_b ELSE 0),
                         end - 1)

\* (unsigned int)(scale * abs_da) with scale = min(1.0, max_length / dist):
\* the largest n <= abs_da with n * dist <= max_length * abs_da
RECURSIVE ScaledLength(_, _, _, _)
ScaledLength(abs_da, dist2, max_length, n) ==
    IF n = 0 \/ n * n * dist2 <= max_length * max_length * abs_da * abs_da
    THEN n
    ELSE ScaledLength(abs_da, dist2, max_length, n - 1)

\* Costmap2D::raytraceLine: the indices of the cells the marker is applied to
raytraceLine(x0, y0, x1, y1, max_length) ==
    LET dx == x1 - x0
        dy == y1 - y0
        abs_dx == Abs(dx)
        abs_dy == Abs(dy)
        offset_dx == Sign(dx)
        offset_dy == Sign(dy) * size_x_
        offset == y0 * size_x_ + x0
        dist2 == dx * dx + dy * dy
    IN  IF abs_dx >= abs_dy
        THEN bresenham2D(abs_dx, abs_dy, abs_dx \div 2, offset_dx, offset_dy,
                         offset, ScaledLength(abs_dx, dist2, max_length, abs_dx))
        ELSE bresenham2D(abs_dy, abs_dx, abs_dy \div 2, offset_dy, offset_dx,
                         offset, ScaledLength(abs_dy, dist2, max_length, abs_dy))


(***************************************************************************)
(* ObstacleLayer::raytraceFreespace, one ray: the clipping of the end      *)
(* point w = [x, y] of the ray from (ox, oy) with direction (a, b).        *)
(***************************************************************************)
map_end_x == origin_x_ + size_x_ * resolution_
map_end_y == origin_y_ + size_y_ * resolution_

\* if (wx < origin_x) { t = (origin_x - ox) / a; wx = origin_x; wy = oy + b * t; }
ClipMinX(ox, oy, a, b, w) ==
    IF RLt(w.x, R(origin_x_))
    THEN LET t == RDiv(RSub(R(origin_x_), ox), a)
         IN  [x |-> R(origin_x_), y |-> RAdd(oy, RMul(b, t))]
    ELSE w

\* if (wy < origin_y) { t = (origin_y - oy) / b; wx = ox + a * t; wy = origin_y; }
ClipMinY(ox, oy, a, b, w) ==
    IF RLt(w.y, R(origin_y_))
    THEN LET t == RDiv(RSub(R(origin_y_), oy), b)
         IN  [x |-> RAdd(ox, RMul(a, t)), y |-> R(origin_y_)]
    ELSE w

\* if (wx > map_end_x) { t = (map_end_x - ox) / a; wx = map_end_x - .001; wy = oy + b * t; }
ClipMaxX(ox, oy, a, b, w) ==
    IF RLt(R(map_end_x), w.x)
    THEN LET t == RDiv(RSub(R(map_end_x), ox), a)
         IN  [x |-> R(map_end_x - Epsilon), y |-> RAdd(oy, RMul(b, t))]
    ELSE w

\* if (wy > map_end_y) { t = (map_end_y - oy) / b; wx = ox + a * t; wy = map_end_y - .001; }
ClipMaxY(ox, oy, a, b, w) ==
    IF RLt(R(map_end_y), w.y)
    THEN LET t == RDiv(RSub(R(map_end_y), oy), b)
         IN  [x |-> RAdd(ox, RMul(a, t)), y |-> R(map_end_y - Epsilon)]
    ELSE w

\* the four steps in the order of the code, on the hit point (px, py)
ClipRay(ox, oy, px, py) ==
    LET a == RSub(px, ox)
        b == RSub(py, oy)
    IN  ClipMaxY(ox, oy, a, b,
          ClipMaxX(ox, oy, a, b,
            ClipMinY(ox, oy, a, b,
              ClipMinX(ox, oy, a, b, [x |-> px, y |-> py]))))

\* the divisions the four steps make on the hit point (px, py): for each
\* branch taken, the ray component it divides by
ClipDivisions(ox, oy, px, py) ==
    LET a == RSub(px, ox)
        b == RSub(py, oy)
        w0 == [x |-> px, y |-> py]
        w1 == ClipMinX(ox, oy, a, b, w0)
        w2 == ClipMinY(ox, oy, a, b, w1)
        w3 == ClipMaxX(ox, oy, a, b, w2)
    IN  (IF RLt(w0.x, R(origin_x_)) THEN {[branch |-> "min_x", by |-> a]} ELSE {})
        \cup (IF RLt(w1.y, R(origin_y_)) THEN {[branch |-> "min_y", by |-> b]} ELSE {})
        \cup (IF RLt(R(map_end_x), w2.x) THEN {[branch |-> "max_x", by |-> a]} ELSE {})
        \cup (IF RLt(R(map_end_y), w3.y) THEN {[branch |-> "max_y", by |-> b]} ELSE {})

\* hypot(dx, dy), to within one part in the denominator of dx * dx + dy * dy
Hypot(dx, dy) ==
    LET q == RAdd(RMul(dx, dx), RMul(dy, dy))
    IN  Rat(ISqrt(q[1] * q[2]), q[2])

\* updateRaytraceBounds without the scaling: the end of the ray as it is
RaytraceBoundsEnd_NoScale(ox, oy, wx, wy, range) == [x |-> wx, y |-> wy]

\* the point updateRaytraceBounds touches: (ox, oy) + (dx, dy) * scale with
\* scale = min(1.0, range / hypot(dx, dy)); a scaled end is rounded to the unit
RaytraceBoundsEnd(ox, oy, wx, wy, range) ==
    LET dx == RSub(wx, ox)
        dy == RSub(wy, oy)
        dist2 == RAdd(RMul(dx, dx), RMul(dy, dy))
    IN  IF RLe(dist2, R(range * range))
        THEN [x |-> RAdd(ox, dx), y |-> RAdd(oy, dy)]
        ELSE LET scale == RDiv(R(range), Hypot(dx, dy))
             IN  [x |-> R(RRound(RAdd(ox, RMul(dx, scale)))),
                  y |-> R(RRound(RAdd(oy, RMul(dy, scale))))]

\* updateRaytraceBounds that starts a rectangle of its own
updateRaytraceBounds_Fresh(ox, oy, wx, wy, range, b) ==
    LET e == RaytraceBoundsEnd(ox, oy, wx, wy, range)
    IN  [min_x |-> e.x, min_y |-> e.y, max_x |-> e.x, max_y |-> e.y]

\* ObstacleLayer::updateRaytraceBounds
updateRaytraceBounds(ox, oy, wx, wy, range, b) ==
    LET e == RaytraceBoundsEnd(ox, oy, wx, wy, range)
    IN  touch(e.x, e.y, b)

\* TraceRay with the whole grid as cell_raytrace_range
TraceRay_NoCap(obs, p, x0, y0, b) ==
    LET ox == R(obs.origin_.x)
        oy == R(obs.origin_.y)
        w == ClipRay(ox, oy, R(p.x), R(p.y))
        c1 == worldToMap(w.x, w.y)
    IN  IF ~c1.ok
        THEN [cells |-> {}, bounds |-> b,
              ray |-> [o |-> obs.origin_, p |-> p, range |-> obs.raytrace_range_,
                       w |-> w, ok |-> FALSE, e |-> w,
                       divs |-> ClipDivisions(ox, oy, R(p.x), R(p.y))]]
        ELSE [cells |-> raytraceLine(x0, y0, c1.x, c1.y, size_x_ + size_y_),
              bounds |-> updateRaytraceBounds(ox, oy, w.x, w.y,
                                              obs.raytrace_range_, b),
              ray |-> [o |-> obs.origin_, p |-> p, range |-> obs.raytrace_range_,
                       w |-> w, ok |-> TRUE,
                       e |-> RaytraceBoundsEnd(ox, oy, w.x, w.y,
                                               obs.raytrace_range_),
                       divs |-> ClipDivisions(ox, oy, R(p.x), R(p.y))]]

\* the body of the loop over the cloud of raytraceFreespace for the hit point
\* p of observation obs, whose origin is in cell (x0, y0): the cells set to
\* FREE_SPACE, the bounds, and what happened to the ray
TraceRay(obs, p, x0, y0, b) ==
    LET ox == R(obs.origin_.x)
        oy == R(obs.origin_.y)
        w == ClipRay(ox, oy, R(p.x), R(p.y))
        c1 == worldToMap(w.x, w.y)
    IN  IF ~c1.ok
        THEN [cells |-> {}, bounds |-> b,
              ray |-> [o |-> obs.origin_, p |-> p, range |-> obs.raytrace_range_,
                       w |-> w, ok |-> FALSE, e |-> w,
                       divs |-> ClipDivisions(ox, oy, R(p.x), R(p.y))]]
        ELSE [cells |-> raytraceLine(x0, y0, c1.x, c1.y,
                                     cellDistance(obs.raytrace_range_)),
              bounds |-> updateRaytraceBounds(ox, oy, w.x, w.y,
                                              obs.raytrace_range_, b),
              ray |-> [o |-> obs.origin_, p |-> p, range |-> obs.raytrace_range_,
                       w |-> w, ok |-> TRUE,
                       e |-> RaytraceBoundsEnd(ox, oy, w.x, w.y,
                                               obs.raytrace_range_),
                       divs |-> ClipDivisions(ox, oy, R(p.x), R(p.y))]]


(***************************************************************************)
(* The marking loop of ObstacleLayer::updateBounds, one point.             *)
(***************************************************************************)
\* the height check with >= for >
TooHigh_Inclusive(p) == p.z >= max_obstacle_height_

\* if (pz > max_obstacle_height_) continue;
TooHigh(p) == p.z > max_obstacle_height_

\* sq_dist: the squared distance from the hit point to the cloud's origin
SqDist(obs, p) ==
    (p.x - obs.origin_.x) * (p.x - obs.origin_.x)
    + (p.y - obs.origin_.y) * (p.y - obs.origin_.y)
    + (p.z - obs.origin_.z) * (p.z - obs.origin_.z)

\* the range check with > for >=
TooFar_Strict(obs, p) == SqDist(obs, p) > obs.obstacle_range_ * obs.obstacle_range_

\* if (sq_dist >= sq_obstacle_range) continue;
TooFar(obs, p) == SqDist(obs, p) >= obs.obstacle_range_ * obs.obstacle_range_

\* the loop body with a cost one below LETHAL_OBSTACLE written to the cell
MarkPoint_Inscribed(obs, p, cm, b) ==
    IF TooHigh(p) THEN [costmap |-> cm, bounds |-> b, cells |-> {}]
    ELSE IF TooFar(obs, p) THEN [costmap |-> cm, bounds |-> b, cells |-> {}]
    ELSE LET c == worldToMap(R(p.x), R(p.y))
         IN  IF ~c.ok THEN [costmap |-> cm, bounds |-> b, cells |-> {}]
             ELSE [costmap |-> [cm EXCEPT ![getIndex(c.x, c.y)] = LETHAL_OBSTACLE - 1],
                   bounds |-> touch(R(p.x), R(p.y), b),
                   cells |-> {getIndex(c.x, c.y)}]

\* the body of the loop over the cloud: the grid, the bounds and the cell
\* marked (none for a skipped point)
MarkPoint(obs, p, cm, b) ==
    IF TooHigh(p) THEN [costmap |-> cm, bounds |-> b, cells |-> {}]
    ELSE IF TooFar(obs, p) THEN [costmap |-> cm, bounds |-> b, cells |-> {}]
    ELSE LET c == worldToMap(R(p.x), R(p.y))
         IN  IF ~c.ok THEN [costmap |-> cm, bounds |-> b, cells |-> {}]
             ELSE [costmap |-> [cm EXCEPT ![getIndex(c.x, c.y)] = LETHAL_OBSTACLE],
                   bounds |-> touch(R(p.x), R(p.y), b),
                   cells |-> {getIndex(c.x, c.y)}]

(***************************************************************************)
(* Footprint.                                                              *)
(***************************************************************************)
\* half the length and half the width of the robot, in units of 0.001 m
FootHalfX == 3
FootHalfY == 1

\* LayeredCostmap::getFootprint: a rectangle around the robot's centre
getFootprint ==
    <<[x |-> -FootHalfX, y |-> -FootHalfY], [x |-> FootHalfX, y |-> -FootHalfY],
      [x |-> FootHalfX, y |-> FootHalfY], [x |-> -FootHalfX, y |-> FootHalfY]>>

\* cos and sin of a yaw given in quarter turns
Cos(q) == <<1, 0, -1, 0>>[(q % 4) + 1]
Sin(q) == <<0, 1, 0, -1>>[(q % 4) + 1]

\* transformFootprint: the footprint rotated by yaw and moved to (x, y)
transformFootprint(x, y, yaw, footprint_spec) ==
    [n \in 1 .. Len(footprint_spec) |->
        [x |-> x + footprint_spec[n].x * Cos(yaw) - footprint_spec[n].y * Sin(yaw),
         y |-> y + footprint_spec[n].x * Sin(yaw) + footprint_spec[n].y * Cos(yaw)]]

RECURSIVE TouchAll(_, _, _)
TouchAll(polygon, n, b) ==
    IF n > Len(polygon) THEN b
    ELSE TouchAll(polygon, n + 1, touch(R(polygon[n].x), R(polygon[n].y), b))

\* updateFootprint without the return for a disabled footprint clearing
updateFootprint_Always(robot_x, robot_y, robot_yaw, b) ==
    LET f == transformFootprint(robot_x, robot_y, robot_yaw, getFootprint)
    IN  [footprint |-> f, bounds |-> TouchAll(f, 1, b)]

\* ObstacleLayer::updateFootprint: the new transformed_footprint_ and bounds
updateFootprint(robot_x, robot_y, robot_yaw, b) ==
    IF ~footprint_clearing_enabled_
    THEN [footprint |-> transformed_footprint_, bounds |-> b]
    ELSE LET f == transformFootprint(robot_x, robot_y, robot_yaw, getFootprint)
         IN  [footprint |-> f, bounds |-> TouchAll(f, 1, b)]

\* Costmap2D::convexFillCells: the outline of the polygon in cells, and every
\* cell between the lowest and the highest outline cell of each column
convexFillCells(map_polygon) ==
    IF Len(map_polygon) < 3 THEN {}
    ELSE LET outline ==
                 UNION {raytraceLine(map_polygon[n].x, map_polygon[n].y,
                                     map_polygon[(n % Len(map_polygon)) + 1].x,
                                     map_polygon[(n % Len(map_polygon)) + 1].y,
                                     size_x_ + size_y_)
                        : n \in 1 .. Len(map_polygon)}
         IN  {c \in Cells :
                \E lo \in outline, hi \in outline :
                    /\ lo % size_x_ = c % size_x_
                    /\ hi % size_x_ = c % size_x_
                    /\ lo \div size_x_ <= c \div size_x_
                    /\ c \div size_x_ <= hi \div size_x_}

\* Costmap2D::setConvexPolygonCost: nothing is set when a vertex is off the map
setConvexPolygonCost(polygon, cost_value, cm) ==
    LET loc == [n \in 1 .. Len(polygon) |->
                   worldToMap(R(polygon[n].x), R(polygon[n].y))]
    IN  IF \E n \in 1 .. Len(polygon) : ~loc[n].ok THEN cm
        ELSE [c \in Cells |->
                 IF c \in convexFillCells(loc) THEN cost_value ELSE cm[c]]

(***************************************************************************)
(* Combination into the master grid.                                       *)
(***************************************************************************)
InWindow(c, w) ==
    /\ w.min_i <= c % size_x_ /\ c % size_x_ < w.max_i
    /\ w.min_j <= c \div size_x_ /\ c \div size_x_ < w.max_j

\* the larger of two costs, NO_INFORMATION being the lowest
MaxCost(master, local) ==
    IF local = NO_INFORMATION THEN master
    ELSE IF master = NO_INFORMATION \/ master < local THEN local
    ELSE master

\* CostmapLayer::updateWithMax
updateWithMax(master, cm, w) ==
    [c \in Cells |-> IF InWindow(c, w) THEN MaxCost(master[c], cm[c]) ELSE master[c]]

\* CostmapLayer::updateWithOverwrite
updateWithOverwrite(master, cm, w) ==
    [c \in Cells |-> IF InWindow(c, w) THEN cm[c] ELSE master[c]]

\* the switch with the cases 0 and 1 taken for each other
Combine_Swapped(master, cm, w) ==
    CASE combination_method_ = 1 -> updateWithOverwrite(master, cm, w)
      [] combination_method_ = 0 -> updateWithMax(master, cm, w)
      [] OTHER -> master

\* switch (combination_method_) of ObstacleLayer::updateCosts
Combine(master, cm, w) ==
    CASE combination_method_ = 0 -> updateWithOverwrite(master, cm, w)
      [] combination_method_ = 1 -> updateWithMax(master, cm, w)
      [] OTHER -> master

\* updateCosts without the clearing of the footprint
updateCosts_NoFootprint(master, w, cm) ==
    IF ~enabled_ THEN [costmap |-> cm, master |-> master]
    ELSE [costmap |-> cm, master |-> Combine(master, cm, w)]

\* ObstacleLayer::updateCosts: the local grid and the master grid afterwards
updateCosts(master, w, cm) ==
    IF ~enabled_ THEN [costmap |-> cm, master |-> master]
    ELSE LET cleared_cm ==
                 IF footprint_clearing_enabled_
                 THEN setConvexPolygonCost(transformed_footprint_, FREE_SPACE, cm)
                 ELSE cm
         IN  [costmap |-> cleared_cm, master |-> Combine(master, cleared_cm, w)]

\* Costmap2D::worldToMapEnforceBounds, one axis
EnforceBounds(wx, origin, size) ==
    IF RLt(wx, R(origin)) THEN 0
    ELSE IF RLt(R(resolution_ * size + origin), wx) THEN size - 1
    ELSE RFloor(RDiv(RSub(wx, R(origin)), R(resolution_)))

\* LayeredCostmap::updateMap: the window of cells handed to updateCosts
UpdateWindow(b) ==
    [min_i |-> EnforceBounds(b.min_x, origin_x_, size_x_),
     min_j |-> EnforceBounds(b.min_y, origin_y_, size_y_),
     max_i |-> IF EnforceBounds(b.max_x, origin_x_, size_x_) + 1 < size_x_
               THEN EnforceBounds(b.max_x, origin_x_, size_x_) + 1 ELSE size_x_,
     max_j |-> IF EnforceBounds(b.max_y, origin_y_, size_y_) + 1 < size_y_
               THEN EnforceBounds(b.max_y, origin_y_, size_y_) + 1 ELSE size_y_]


(***************************************************************************)
(* Observations and the inputs of a run.                                   *)
(***************************************************************************)
Pt(x, y, z) == [x |-> x, y |-> y, z |-> z]
Obs(origin, cloud, obstacle_range, raytrace_range) ==
    [origin_ |-> origin, cloud_ |-> cloud,
     obstacle_range_ |-> obstacle_range, raytrace_range_ |-> raytrace_range]

\* Observation(): what bufferCloud pushes before it fills it in
EmptyObservation == Obs(Pt(0, 0, 0), <<>>, 0, 0)

\* the far end of the map: one cell beyond the last
MapEnd == Size * Res
\* the middle of cell n of an axis
Mid(n) == n * Res + Res \div 2

\* the sensor messages of the concurrency runs: a beam along a row and a beam
\* along a column
MainInputs ==
    {Obs(Pt(Mid(1), Mid(1), 0), <<Pt(Mid(Size - 1), Mid(1), 0)>>, MapEnd, MapEnd),
     Obs(Pt(Mid(0), Mid(0), 0), <<Pt(Mid(0), Mid(Size - 1), 0)>>, MapEnd, MapEnd)}

\* the coordinates of the geometry runs: cell borders and cell middles from one
\* cell before the map to one cell after it, and the points next to the map end
Coords ==
    {(n * Res) \div 2 : n \in -2 .. (2 * Size + 2)} \cup {MapEnd - Epsilon, MapEnd + Epsilon}
InMap(x) == 0 <= x /\ x < MapEnd
MaxHeight == 2
Heights == {0, MaxHeight, MaxHeight + 1}
Ranges == {Res, 2 * Res + 1, 3 * MapEnd}

\* the rays of the geometry runs: from origins on the map and one off it to
\* every hit point, under every range
RayInputs ==
    {Obs(Pt(ox, oy, 0), <<Pt(px, py, 0)>>, r, r) :
        ox \in {x \in Coords : InMap(x)} \cup {-Res},
        oy \in {Mid(0), Mid(1), MapEnd - Epsilon},
        px \in Coords, py \in Coords, r \in Ranges}

\* the hit points of the marking runs: every point at every height, seen from
\* the middle of the map under every range
MarkInputs ==
    {Obs(Pt(Mid(1), Mid(1), oz), <<Pt(px, py, pz)>>, r, r) :
        oz \in {0, 1}, px \in Coords, py \in Coords, pz \in Heights, r \in Ranges}

\* the observations of the runs with a sensor off the grid: one whose origin
\* is one cell before the grid, and one whose origin is on it
SkipInputs ==
    {Obs(Pt(-Res, Mid(1), 0), <<Pt(Mid(1), Mid(1), 0)>>, MapEnd, MapEnd),
     Obs(Pt(Mid(0), Mid(0), 0), <<Pt(Mid(Size - 1), Mid(0), 0)>>, MapEnd, MapEnd)}

\* the observations the environment can hand over in a run of each kind
InputSet ==
    CASE inputs = "ray" -> RayInputs
      [] inputs = "mark" -> MarkInputs
      [] inputs = "skip" -> SkipInputs
      [] OTHER -> MainInputs

\* the (marking, clearing) flags the host adds a static observation with
StaticFlags ==
    CASE inputs = "ray" -> {<<TRUE, TRUE>>}
      [] inputs = "mark" -> {<<TRUE, FALSE>>, <<TRUE, TRUE>>}
      [] OTHER -> {<<TRUE, FALSE>>, <<FALSE, TRUE>>, <<TRUE, TRUE>>}

\* what the laser projector makes of the rays a scan reports as +Inf once
\* laserScanValidInfCallback has set them to range_max - epsilon
InfCloud == <<Pt(Mid(Size - 1), Mid(Size - 1), 0)>>

\* the bounds the caller hands to updateBounds: none yet (1e30, -1e30), or
\* what the layers before this one have touched
Huge == 100000
NoBounds ==
    [min_x |-> R(Huge), min_y |-> R(Huge), max_x |-> R(-Huge), max_y |-> R(-Huge)]
SeedBounds ==
    IF inputs \in {"combine", "disabled"}
    THEN {NoBounds,
          [min_x |-> R(Mid(0)), min_y |-> R(Mid(0)),
           max_x |-> R(Mid(1)), max_y |-> R(Mid(0))]}
    ELSE {NoBounds}

\* the robot poses: in the middle of the map, and turned by a quarter; for a
\* rolling window also a cell to the left and a cell to the right
Poses ==
    IF inputs = "combine"
    THEN {[x |-> Mid(1), y |-> Mid(1), yaw |-> 0], [x |-> Mid(1), y |-> Mid(1), yaw |-> 1]}
    ELSE IF inputs \in {"roll", "disabled"}
    THEN {[x |-> Mid(n), y |-> Mid(1), yaw |-> 0] : n \in 0 .. 2}
    ELSE {[x |-> Mid(1), y |-> Mid(1), yaw |-> 0]}

\* the master grid as the layers before this one leave it
MasterUnknown == [c \in Cells |-> NO_INFORMATION]
MasterMixed4 ==
    [c \in Cells |-> (<<NO_INFORMATION, FREE_SPACE, 100, LETHAL_OBSTACLE>>)[(c % 4) + 1]]
MasterMixed3 ==
    [c \in Cells |-> (<<LETHAL_OBSTACLE, 100, FREE_SPACE>>)[(c % 3) + 1]]
MasterInputs ==
    IF inputs \in {"combine", "disabled"}
    THEN {MasterUnknown, MasterMixed4, MasterMixed3}
    ELSE {MasterUnknown}

NoRay == [o |-> Pt(0, 0, 0), p |-> Pt(0, 0, 0), range |-> 0,
          w |-> [x |-> R(0), y |-> R(0)], ok |-> FALSE, e |-> [x |-> R(0), y |-> R(0)],
          divs |-> {}]
NoWindow == [min_i |-> 0, min_j |-> 0, max_i |-> 0, max_j |-> 0]
NoExtraBounds == [has |-> FALSE, b |-> NoBounds]


(***************************************************************************)
(* ObservationBuffer, as the layer uses it.                                *)
(***************************************************************************)
\* ObservationBuffer::purgeStaleObservations with observation_persistence 0:
\* only the newest observation is kept
purgeStaleObservations(list) == IF Len(list) > 1 THEN <<Head(list)>> ELSE list

\* which callback onInitialize registers for a source
DataTypes == <<"LaserScan", "LaserScanValidInf", "PointCloud2">>

(***************************************************************************)
(* The state after onInitialize.                                           *)
(***************************************************************************)
RECURSIVE BuffersWith(_, _)
\* the sources of which `flag` holds, in the order onInitialize declares them
BuffersWith(flag, n) ==
    IF n > NumSources THEN <<>>
    ELSE (IF flag[n] THEN <<n>> ELSE <<>>) \o BuffersWith(flag, n + 1)

InitLayer ==
    /\ costmap_ = [c \in Cells |-> default_value_]
    /\ origin_x_ = 0
    /\ origin_y_ = 0
    /\ current_ = TRUE
    /\ static_marking_observations_ = <<>>
    /\ static_clearing_observations_ = <<>>
    /\ transformed_footprint_ = <<>>
    /\ extra_bounds_ = NoExtraBounds
    /\ observation_list_ = [s \in Sources |-> <<>>]
    /\ is_current_ = [s \in Sources |-> TRUE]
    /\ lock_ = [s \in Sources |-> "free"]
    /\ cb = [s \in Sources |-> [pc |-> "idle", cloud |-> EmptyObservation]]
    /\ pc = "idle"
    /\ robot = [x |-> 0, y |-> 0, yaw |-> 0]
    /\ bounds = NoBounds
    /\ current = TRUE
    /\ observations = <<>>
    /\ clearing_observations = <<>>
    /\ i = 1
    /\ j = 0
    /\ master_grid = [c \in Cells |-> NO_INFORMATION]
    /\ window = NoWindow
    /\ reads = <<>>
    /\ cleared = {}
    /\ marked = {}
    /\ traced = 0
    /\ ray = NoRay
    /\ seed = NoBounds
    /\ subscribed_ = [s \in Sources |-> TRUE]
    /\ host = "idle"
    /\ last_call = "none"

\* the data types of the sources: the three callbacks, from the r-th on
TypesFrom(r) == [s \in Sources |-> DataTypes[((s + r) % 3) + 1]]

\* the sources as configured: no marking and no clearing source, all marking,
\* all clearing, all both, or the first marking and the others clearing
SourceSetups ==
    {[marking |-> [s \in Sources |-> FALSE], clearing |-> [s \in Sources |-> FALSE],
      types |-> TypesFrom(0)],
     [marking |-> [s \in Sources |-> TRUE], clearing |-> [s \in Sources |-> FALSE],
      types |-> TypesFrom(1)],
     [marking |-> [s \in Sources |-> FALSE], clearing |-> [s \in Sources |-> TRUE],
      types |-> TypesFrom(2)],
     [marking |-> [s \in Sources |-> TRUE], clearing |-> [s \in Sources |-> TRUE],
      types |-> TypesFrom(0)],
     [marking |-> [s \in Sources |-> s = 1], clearing |-> [s \in Sources |-> s # 1],
      types |-> TypesFrom(1)]}

\* runs of the sensor callbacks against the update cycle
MaxInputs == 2
MaxCycles == 1

Init ==
    /\ inputs = "main"
    /\ enabled_ = TRUE
    /\ footprint_clearing_enabled_ = TRUE
    /\ max_obstacle_height_ = MaxHeight
    /\ combination_method_ = 1
    /\ rolling_window_ = FALSE
    /\ default_value_ = NO_INFORMATION
    /\ \E f \in SourceSetups :
          /\ marking_buffers_ = BuffersWith(f.marking, 1)
          /\ clearing_buffers_ = BuffersWith(f.clearing, 1)
          /\ data_type_ = f.types
    /\ inputs_left = MaxInputs
    /\ cycles_left = MaxCycles
    /\ calls_left = 0
    /\ InitLayer


(***************************************************************************)
(* The sensor callbacks: one thread per source.                            *)
(***************************************************************************)
\* CallbackLock without the lock(): the callback goes on to bufferCloud at once
CallbackLock_NoLock(s, o) ==
    /\ cb[s].pc = "idle"
    /\ inputs_left > 0
    /\ cb' = [cb EXCEPT ![s] = [pc |-> "bufferCloud", cloud |-> o]]
    /\ inputs_left' = inputs_left - 1
    /\ UNCHANGED <<cfg_vars, life_vars, seed, grid_vars, static_vars, hist_vars, cycle_vars,
                   buffer_vars, current_, transformed_footprint_, extra_bounds_>>

\* buffer->lock(), with the cloud the callback has made of its message
CallbackLock(s, o) ==
    /\ cb[s].pc = "idle"
    /\ subscribed_[s]
    /\ inputs_left > 0
    /\ lock_[s] = "free"
    /\ lock_' = [lock_ EXCEPT ![s] = "callback"]
    /\ cb' = [cb EXCEPT ![s] = [pc |-> "bufferCloud", cloud |-> o]]
    /\ inputs_left' = inputs_left - 1
    /\ UNCHANGED <<cfg_vars, life_vars, seed, grid_vars, static_vars, hist_vars, cycle_vars,
                   observation_list_, is_current_, current_,
                   transformed_footprint_, extra_bounds_>>

\* ObstacleLayer::laserScanCallback: the projector drops the +Inf rays
laserScanCallback ==
    \E s \in Sources, o \in InputSet :
        /\ data_type_[s] = "LaserScan"
        /\ CallbackLock(s, o)

\* ObstacleLayer::laserScanValidInfCallback: the +Inf rays become points at
\* range_max - epsilon
laserScanValidInfCallback ==
    \E s \in Sources, o \in InputSet, inf \in BOOLEAN :
        /\ data_type_[s] = "LaserScanValidInf"
        /\ CallbackLock(s, IF inf THEN [o EXCEPT !.cloud_ = @ \o InfCloud] ELSE o)

\* ObstacleLayer::pointCloud2Callback
pointCloud2Callback ==
    \E s \in Sources, o \in InputSet :
        /\ data_type_[s] = "PointCloud2"
        /\ CallbackLock(s, o)

\* ObservationBuffer::bufferCloud, first half: observation_list_.push_front(Observation())
bufferCloudPush ==
    \E s \in Sources :
        /\ cb[s].pc = "bufferCloud"
        /\ observation_list_' = [observation_list_ EXCEPT ![s] = <<EmptyObservation>> \o @]
        /\ cb' = [cb EXCEPT ![s].pc = "fill"]
        /\ UNCHANGED <<cfg_vars, life_vars, seed, grid_vars, static_vars, hist_vars, cycle_vars,
                       is_current_, lock_, current_, transformed_footprint_,
                       extra_bounds_, inputs_left>>

\* ObservationBuffer::bufferCloud, second half: the front observation is filled
\* in, last_updated_ is set and the stale observations are purged
bufferCloudFill ==
    \E s \in Sources :
        /\ cb[s].pc = "fill"
        /\ observation_list_' =
               [observation_list_ EXCEPT
                   ![s] = purgeStaleObservations(<<cb[s].cloud>> \o Tail(@))]
        /\ is_current_' = [is_current_ EXCEPT ![s] = TRUE]
        /\ cb' = [cb EXCEPT ![s].pc = "unlock"]
        /\ UNCHANGED <<cfg_vars, life_vars, seed, grid_vars, static_vars, hist_vars, cycle_vars,
                       lock_, current_, transformed_footprint_, extra_bounds_,
                       inputs_left>>

\* buffer->unlock() at the end of a callback
CallbackUnlock ==
    \E s \in Sources :
        /\ cb[s].pc = "unlock"
        /\ lock_' = [lock_ EXCEPT ![s] = "free"]
        /\ cb' = [cb EXCEPT ![s] = [pc |-> "idle", cloud |-> EmptyObservation]]
        /\ UNCHANGED <<cfg_vars, life_vars, seed, grid_vars, static_vars, hist_vars, cycle_vars,
                       observation_list_, is_current_, current_,
                       transformed_footprint_, extra_bounds_, inputs_left>>

\* ObservationBuffer::isCurrent turns false: expected_update_rate has passed
\* since last_updated_. Only isCurrent() sees the time, so the expiry is taken
\* right before the read it changes.
Expire ==
    \E s \in Sources :
        /\ \/ pc = "m_get" /\ s = marking_buffers_[i]
           \/ pc = "c_get" /\ s = clearing_buffers_[i]
        /\ is_current_[s]
        /\ is_current_' = [is_current_ EXCEPT ![s] = FALSE]
        /\ UNCHANGED <<cfg_vars, life_vars, seed, grid_vars, static_vars, hist_vars, cycle_vars,
                       observation_list_, lock_, current_, transformed_footprint_,
                       extra_bounds_, cb, inputs_left>>


(***************************************************************************)
(* The update cycle: updateBounds, then updateCosts, on one thread.        *)
(***************************************************************************)
\* static_cast<int> of a finite double: towards zero
RTrunc(p) == IF p[1] >= 0 THEN p[1] \div p[2] ELSE -((-p[1]) \div p[2])

\* Costmap2D::updateOrigin: the grid moved by whole cells; the cells that stay
\* inside the window keep their cost, the others get the default
updateOrigin(new_origin_x, new_origin_y) ==
    LET cell_ox == RTrunc(RDiv(RSub(new_origin_x, R(origin_x_)), R(resolution_)))
        cell_oy == RTrunc(RDiv(RSub(new_origin_y, R(origin_y_)), R(resolution_)))
    IN  [origin_x |-> origin_x_ + cell_ox * resolution_,
         origin_y |-> origin_y_ + cell_oy * resolution_,
         costmap |->
            [c \in Cells |->
                LET x == (c % size_x_) + cell_ox
                    y == (c \div size_x_) + cell_oy
                IN  IF 0 <= x /\ x < size_x_ /\ 0 <= y /\ y < size_y_
                    THEN costmap_[getIndex(x, y)] ELSE default_value_]]

\* Costmap2D::getSizeInMetersX / getSizeInMetersY: (size - 1 + 0.5) * resolution_
getSizeInMeters(size) == Rat((2 * size - 1) * resolution_, 2)

\* CostmapLayer::useExtraBounds
useExtraBounds(b) ==
    IF ~extra_bounds_.has THEN b
    ELSE [min_x |-> RMin(extra_bounds_.b.min_x, b.min_x),
          min_y |-> RMin(extra_bounds_.b.min_y, b.min_y),
          max_x |-> RMax(extra_bounds_.b.max_x, b.max_x),
          max_y |-> RMax(extra_bounds_.b.max_y, b.max_y)]

\* the two loops the other way round: the marking loop first
Phases_MarkFirst == <<"mark", "raytrace">>

\* the two loops of updateBounds over the observations, in the order of the
\* code: the raytrace loop, then the marking loop
Phases == <<"raytrace", "mark">>

\* where updateBounds goes on after the loop `phase`
After(phase) == IF phase = Phases[1] THEN Phases[2] ELSE "footprint"

RECURSIVE NextCloud(_, _)
\* the first observation from n on whose cloud has a point
NextCloud(obs_seq, n) ==
    IF n > Len(obs_seq) THEN n
    ELSE IF Len(obs_seq[n].cloud_) > 0 THEN n
    ELSE NextCloud(obs_seq, n + 1)

\* updateBounds without the return of a disabled layer
UB_Begin_NoEnabledCheck ==
    /\ pc = "idle"
    /\ host = "idle"
    /\ cycles_left > 0
    /\ cycles_left' = cycles_left - 1
    /\ \E pose \in Poses, caller \in SeedBounds :
        LET moved == IF rolling_window_
                     THEN updateOrigin(
                            RSub(R(pose.x), RDiv(getSizeInMeters(size_x_), R(2))),
                            RSub(R(pose.y), RDiv(getSizeInMeters(size_y_), R(2))))
                     ELSE [origin_x |-> origin_x_, origin_y |-> origin_y_,
                           costmap |-> costmap_]
        IN  /\ robot' = pose
            /\ seed' = caller
            /\ origin_x_' = moved.origin_x
            /\ origin_y_' = moved.origin_y
            /\ costmap_' = moved.costmap
            /\ pc' = "m_lock"
            /\ bounds' = useExtraBounds(caller)
            /\ extra_bounds_' = NoExtraBounds
    /\ current' = TRUE
    /\ observations' = <<>>
    /\ clearing_observations' = <<>>
    /\ i' = 1
    /\ j' = 0
    /\ reads' = <<>>
    /\ cleared' = {}
    /\ marked' = {}
    /\ traced' = 0
    /\ ray' = NoRay
    /\ UNCHANGED <<cfg_vars, life_vars, static_vars, buffer_vars, current_,
                   transformed_footprint_, cb, inputs_left, master_grid, window>>

\* updateBounds up to the call of getMarkingObservations
UB_Begin ==
    /\ pc = "idle"
    /\ host = "idle"
    /\ cycles_left > 0
    /\ cycles_left' = cycles_left - 1
    /\ \E pose \in Poses, caller \in SeedBounds :
        LET moved == IF rolling_window_
                     THEN updateOrigin(
                            RSub(R(pose.x), RDiv(getSizeInMeters(size_x_), R(2))),
                            RSub(R(pose.y), RDiv(getSizeInMeters(size_y_), R(2))))
                     ELSE [origin_x |-> origin_x_, origin_y |-> origin_y_,
                           costmap |-> costmap_]
        IN  /\ robot' = pose
            /\ seed' = caller
            /\ origin_x_' = moved.origin_x
            /\ origin_y_' = moved.origin_y
            /\ costmap_' = moved.costmap
            /\ IF ~enabled_
               THEN /\ pc' = "ub_done"
                    /\ bounds' = caller
                    /\ UNCHANGED extra_bounds_
               ELSE /\ pc' = "m_lock"
                    /\ bounds' = useExtraBounds(caller)
                    /\ extra_bounds_' = NoExtraBounds
    /\ current' = TRUE
    /\ observations' = <<>>
    /\ clearing_observations' = <<>>
    /\ i' = 1
    /\ j' = 0
    /\ reads' = <<>>
    /\ cleared' = {}
    /\ marked' = {}
    /\ traced' = 0
    /\ ray' = NoRay
    /\ UNCHANGED <<cfg_vars, life_vars, static_vars, buffer_vars, current_,
                   transformed_footprint_, cb, inputs_left, master_grid, window>>

\* getMarkingObservations: marking_buffers_[i]->lock()
M_Lock ==
    /\ pc = "m_lock"
    /\ i <= Len(marking_buffers_)
    /\ lock_[marking_buffers_[i]] = "free"
    /\ lock_' = [lock_ EXCEPT ![marking_buffers_[i]] = "update"]
    /\ pc' = "m_get"
    /\ UNCHANGED <<cfg_vars, life_vars, seed, grid_vars, static_vars, hist_vars, observation_list_,
                   is_current_, current_, transformed_footprint_, extra_bounds_, cb,
                   inputs_left, robot, bounds, current, observations,
                   clearing_observations, i, j, master_grid, window, cycles_left>>

\* M_Get with current = marking_buffers_[i]->isCurrent(): the last buffer decides
M_Get_LastWins ==
    /\ pc = "m_get"
    /\ LET s == marking_buffers_[i]
           list == purgeStaleObservations(observation_list_[s])
       IN  /\ observation_list_' = [observation_list_ EXCEPT ![s] = list]
           /\ observations' = observations \o list
           /\ current' = is_current_[s]
           /\ reads' = Append(reads, [list |-> "marking", source |-> s,
                                      value |-> is_current_[s]])
    /\ pc' = "m_unlock"
    /\ UNCHANGED <<cfg_vars, life_vars, seed, grid_vars, static_vars, cleared, marked, traced, ray,
                   is_current_, lock_, current_, transformed_footprint_,
                   extra_bounds_, cb, inputs_left, robot, bounds,
                   clearing_observations, i, j, master_grid, window, cycles_left>>

\* getMarkingObservations: getObservations(marking_observations) and
\* current = marking_buffers_[i]->isCurrent() && current
M_Get ==
    /\ pc = "m_get"
    /\ LET s == marking_buffers_[i]
           list == purgeStaleObservations(observation_list_[s])
       IN  /\ observation_list_' = [observation_list_ EXCEPT ![s] = list]
           /\ observations' = observations \o list
           /\ current' = (is_current_[s] /\ current)
           /\ reads' = Append(reads, [list |-> "marking", source |-> s,
                                      value |-> is_current_[s]])
    /\ pc' = "m_unlock"
    /\ UNCHANGED <<cfg_vars, life_vars, seed, grid_vars, static_vars, cleared, marked, traced, ray,
                   is_current_, lock_, current_, transformed_footprint_,
                   extra_bounds_, cb, inputs_left, robot, bounds,
                   clearing_observations, i, j, master_grid, window, cycles_left>>

\* M_Unlock without the unlock()
M_Unlock_Missing ==
    /\ pc = "m_unlock"
    /\ i' = i + 1
    /\ pc' = "m_lock"
    /\ UNCHANGED <<cfg_vars, life_vars, seed, grid_vars, static_vars, hist_vars, buffer_vars,
                   current_, transformed_footprint_, extra_bounds_, cb,
                   inputs_left, robot, bounds, current, observations,
                   clearing_observations, j, master_grid, window, cycles_left>>

\* getMarkingObservations: marking_buffers_[i]->unlock(); ++i
M_Unlock ==
    /\ pc = "m_unlock"
    /\ lock_' = [lock_ EXCEPT ![marking_buffers_[i]] = "free"]
    /\ i' = i + 1
    /\ pc' = "m_lock"
    /\ UNCHANGED <<cfg_vars, life_vars, seed, grid_vars, static_vars, hist_vars, observation_list_,
                   is_current_, current_, transformed_footprint_, extra_bounds_, cb,
                   inputs_left, robot, bounds, current, observations,
                   clearing_observations, j, master_grid, window, cycles_left>>

\* getMarkingObservations: the static observations are appended and current is
\* returned; then current = current && getClearingObservations(...), which
\* does not call getClearingObservations when current is false
M_Static ==
    /\ pc = "m_lock"
    /\ i > Len(marking_buffers_)
    /\ observations' = observations \o static_marking_observations_
    /\ pc' = IF current THEN "c_lock" ELSE "set_current"
    /\ i' = 1
    /\ UNCHANGED <<cfg_vars, life_vars, seed, grid_vars, static_vars, hist_vars, buffer_vars,
                   current_, transformed_footprint_, extra_bounds_, cb, inputs_left,
                   robot, bounds, current, clearing_observations, j, master_grid,
                   window, cycles_left>>

\* getClearingObservations: clearing_buffers_[i]->lock()
C_Lock ==
    /\ pc = "c_lock"
    /\ i <= Len(clearing_buffers_)
    /\ lock_[clearing_buffers_[i]] = "free"
    /\ lock_' = [lock_ EXCEPT ![clearing_buffers_[i]] = "update"]
    /\ pc' = "c_get"
    /\ UNCHANGED <<cfg_vars, life_vars, seed, grid_vars, static_vars, hist_vars, observation_list_,
                   is_current_, current_, transformed_footprint_, extra_bounds_, cb,
                   inputs_left, robot, bounds, current, observations,
                   clearing_observations, i, j, master_grid, window, cycles_left>>

\* getClearingObservations: getObservations(clearing_observations) and
\* current = clearing_buffers_[i]->isCurrent() && current
C_Get ==
    /\ pc = "c_get"
    /\ LET s == clearing_buffers_[i]
           list == purgeStaleObservations(observation_list_[s])
       IN  /\ observation_list_' = [observation_list_ EXCEPT ![s] = list]
           /\ clearing_observations' = clearing_observations \o list
           /\ current' = (is_current_[s] /\ current)
           /\ reads' = Append(reads, [list |-> "clearing", source |-> s,
                                      value |-> is_current_[s]])
    /\ pc' = "c_unlock"
    /\ UNCHANGED <<cfg_vars, life_vars, seed, grid_vars, static_vars, cleared, marked, traced, ray,
                   is_current_, lock_, current_, transformed_footprint_,
                   extra_bounds_, cb, inputs_left, robot, bounds, observations, i, j,
                   master_grid, window, cycles_left>>

\* getClearingObservations: clearing_buffers_[i]->unlock(); ++i
C_Unlock ==
    /\ pc = "c_unlock"
    /\ lock_' = [lock_ EXCEPT ![clearing_buffers_[i]] = "free"]
    /\ i' = i + 1
    /\ pc' = "c_lock"
    /\ UNCHANGED <<cfg_vars, life_vars, seed, grid_vars, static_vars, hist_vars, observation_list_,
                   is_current_, current_, transformed_footprint_, extra_bounds_, cb,
                   inputs_left, robot, bounds, current, observations,
                   clearing_observations, j, master_grid, window, cycles_left>>

\* getClearingObservations: the static observations are appended and current
\* is returned
C_Static ==
    /\ pc = "c_lock"
    /\ i > Len(clearing_buffers_)
    /\ clearing_observations' = clearing_observations \o static_clearing_observations_
    /\ pc' = "set_current"
    /\ UNCHANGED <<cfg_vars, life_vars, seed, grid_vars, static_vars, hist_vars, buffer_vars,
                   current_, transformed_footprint_, extra_bounds_, cb, inputs_left,
                   robot, bounds, current, observations, i, j, master_grid, window,
                   cycles_left>>

\* UB_SetCurrent with the origin of a rolling window moved after the snapshot
UB_SetCurrent_Shifts ==
    /\ pc = "set_current"
    /\ current_' = current
    /\ origin_x_' = IF rolling_window_ THEN origin_x_ + resolution_ ELSE origin_x_
    /\ pc' = Phases[1]
    /\ i' = IF Phases[1] = "mark" THEN NextCloud(observations, 1) ELSE 1
    /\ j' = IF Phases[1] = "mark" THEN 1 ELSE 0
    /\ UNCHANGED <<cfg_vars, life_vars, seed, costmap_, origin_y_, static_vars,
                   hist_vars, buffer_vars, transformed_footprint_, extra_bounds_,
                   cb, inputs_left, robot, bounds, current, observations,
                   clearing_observations, master_grid, window, cycles_left>>

\* current_ = current; and the first loop starts
UB_SetCurrent ==
    /\ pc = "set_current"
    /\ current_' = current
    /\ pc' = Phases[1]
    /\ i' = IF Phases[1] = "mark" THEN NextCloud(observations, 1) ELSE 1
    /\ j' = IF Phases[1] = "mark" THEN 1 ELSE 0
    /\ UNCHANGED <<cfg_vars, life_vars, seed, grid_vars, static_vars, hist_vars, buffer_vars,
                   transformed_footprint_, extra_bounds_, cb, inputs_left, robot,
                   bounds, current, observations, clearing_observations,
                   master_grid, window, cycles_left>>


\* raytraceFreespace without the return for an origin off the map
UB_RaytraceFreespace_NoOriginCheck ==
    /\ pc = "raytrace"
    /\ j = 0
    /\ i <= Len(clearing_observations)
    /\ LET obs == clearing_observations[i]
       IN  /\ bounds' = touch(R(obs.origin_.x), R(obs.origin_.y), bounds)
           /\ IF Len(obs.cloud_) > 0
              THEN /\ j' = 1
                   /\ i' = i
              ELSE /\ j' = 0
                   /\ i' = i + 1
    /\ traced' = traced + 1
    /\ UNCHANGED <<cfg_vars, life_vars, seed, grid_vars, static_vars, buffer_vars,
                   reads, cleared, marked, ray, current_, transformed_footprint_,
                   extra_bounds_, cb, inputs_left, pc, robot, current, observations,
                   clearing_observations, master_grid, window, cycles_left>>

\* raytraceFreespace with touch(ox, oy, ...) ahead of the check of the origin
UB_RaytraceFreespace_TouchFirst ==
    /\ pc = "raytrace"
    /\ j = 0
    /\ i <= Len(clearing_observations)
    /\ LET obs == clearing_observations[i]
           c0 == worldToMap(R(obs.origin_.x), R(obs.origin_.y))
       IN  /\ bounds' = touch(R(obs.origin_.x), R(obs.origin_.y), bounds)
           /\ IF c0.ok /\ Len(obs.cloud_) > 0
              THEN /\ j' = 1
                   /\ i' = i
              ELSE /\ j' = 0
                   /\ i' = i + 1
    /\ traced' = traced + 1
    /\ UNCHANGED <<cfg_vars, life_vars, seed, grid_vars, static_vars, buffer_vars,
                   reads, cleared, marked, ray, current_, transformed_footprint_,
                   extra_bounds_, cb, inputs_left, pc, robot, current, observations,
                   clearing_observations, master_grid, window, cycles_left>>

\* raytraceFreespace(clearing_observations[i], ...) up to its loop: the
\* observation is left out when its origin is off the map
UB_RaytraceFreespace ==
    /\ pc = "raytrace"
    /\ j = 0
    /\ i <= Len(clearing_observations)
    /\ LET obs == clearing_observations[i]
           c0 == worldToMap(R(obs.origin_.x), R(obs.origin_.y))
       IN  /\ bounds' = IF c0.ok
                        THEN touch(R(obs.origin_.x), R(obs.origin_.y), bounds)
                        ELSE bounds
           /\ IF c0.ok /\ Len(obs.cloud_) > 0
              THEN /\ j' = 1
                   /\ i' = i
              ELSE /\ j' = 0
                   /\ i' = i + 1
    /\ traced' = traced + 1
    /\ UNCHANGED <<cfg_vars, life_vars, seed, grid_vars, static_vars, buffer_vars, reads, cleared,
                   marked, ray, current_, transformed_footprint_, extra_bounds_, cb,
                   inputs_left, pc, robot, current, observations,
                   clearing_observations, master_grid, window, cycles_left>>

\* UB_RaytraceRay with a marker that writes nothing
UB_RaytraceRay_KeepsCost ==
    /\ pc = "raytrace"
    /\ j > 0
    /\ LET obs == clearing_observations[i]
           c0 == worldToMap(R(obs.origin_.x), R(obs.origin_.y))
           t == TraceRay(obs, obs.cloud_[j], c0.x, c0.y, bounds)
       IN  /\ bounds' = t.bounds
           /\ ray' = t.ray
           /\ cleared' = cleared \cup t.cells
           /\ IF j < Len(obs.cloud_)
              THEN /\ j' = j + 1
                   /\ i' = i
              ELSE /\ j' = 0
                   /\ i' = i + 1
    /\ UNCHANGED <<cfg_vars, life_vars, seed, grid_vars, static_vars, buffer_vars,
                   reads, marked, traced, current_, transformed_footprint_,
                   extra_bounds_, cb, inputs_left, pc, robot, current, observations,
                   clearing_observations, master_grid, window, cycles_left>>

\* raytraceFreespace: the ray to point j of the cloud
UB_RaytraceRay ==
    /\ pc = "raytrace"
    /\ j > 0
    /\ LET obs == clearing_observations[i]
           c0 == worldToMap(R(obs.origin_.x), R(obs.origin_.y))
           t == TraceRay(obs, obs.cloud_[j], c0.x, c0.y, bounds)
       IN  /\ costmap_' = [c \in Cells |->
                              IF c \in t.cells THEN FREE_SPACE ELSE costmap_[c]]
           /\ bounds' = t.bounds
           /\ ray' = t.ray
           /\ cleared' = cleared \cup t.cells
           /\ IF j < Len(obs.cloud_)
              THEN /\ j' = j + 1
                   /\ i' = i
              ELSE /\ j' = 0
                   /\ i' = i + 1
    /\ UNCHANGED <<cfg_vars, life_vars, seed, origin_x_, origin_y_, static_vars, buffer_vars, reads,
                   marked, traced, current_, transformed_footprint_, extra_bounds_,
                   cb, inputs_left, pc, robot, current, observations,
                   clearing_observations, master_grid, window, cycles_left>>

\* the raytrace loop is over
UB_RaytraceDone ==
    /\ pc = "raytrace"
    /\ j = 0
    /\ i > Len(clearing_observations)
    /\ pc' = After("raytrace")
    /\ i' = NextCloud(observations, 1)
    /\ j' = 1
    /\ UNCHANGED <<cfg_vars, life_vars, seed, grid_vars, static_vars, hist_vars, buffer_vars,
                   current_, transformed_footprint_, extra_bounds_, cb, inputs_left,
                   robot, bounds, current, observations, clearing_observations,
                   master_grid, window, cycles_left>>

\* the marking loop: point j of the cloud of observations[i]
UB_MarkPoint ==
    /\ pc = "mark"
    /\ i <= Len(observations)
    /\ LET obs == observations[i]
           m == MarkPoint(obs, obs.cloud_[j], costmap_, bounds)
       IN  /\ costmap_' = m.costmap
           /\ bounds' = m.bounds
           /\ marked' = marked \cup m.cells
           /\ IF j < Len(obs.cloud_)
              THEN /\ j' = j + 1
                   /\ i' = i
              ELSE /\ j' = 1
                   /\ i' = NextCloud(observations, i + 1)
    /\ UNCHANGED <<cfg_vars, life_vars, seed, origin_x_, origin_y_, static_vars, buffer_vars, reads,
                   cleared, traced, ray, current_, transformed_footprint_,
                   extra_bounds_, cb, inputs_left, pc, robot, current, observations,
                   clearing_observations, master_grid, window, cycles_left>>

\* the marking loop is over
UB_MarkDone ==
    /\ pc = "mark"
    /\ i > Len(observations)
    /\ pc' = After("mark")
    /\ i' = 1
    /\ j' = 0
    /\ UNCHANGED <<cfg_vars, life_vars, seed, grid_vars, static_vars, hist_vars, buffer_vars,
                   current_, transformed_footprint_, extra_bounds_, cb, inputs_left,
                   robot, bounds, current, observations, clearing_observations,
                   master_grid, window, cycles_left>>

\* updateFootprint, and updateBounds returns
UB_UpdateFootprint ==
    /\ pc = "footprint"
    /\ LET f == updateFootprint(robot.x, robot.y, robot.yaw, bounds)
       IN  /\ transformed_footprint_' = f.footprint
           /\ bounds' = f.bounds
    /\ pc' = "ub_done"
    /\ UNCHANGED <<cfg_vars, life_vars, seed, grid_vars, static_vars, hist_vars, buffer_vars,
                   current_, extra_bounds_, cb, inputs_left, robot, current,
                   observations, clearing_observations, i, j, master_grid, window,
                   cycles_left>>

\* LayeredCostmap::updateMap between updateBounds and updateCosts: the window
\* of the bounds; updateCosts is not called for an empty one
LC_UpdateMap ==
    /\ pc = "ub_done"
    /\ LET w == UpdateWindow(bounds)
       IN  IF w.max_i < w.min_i \/ w.max_j < w.min_j
           THEN /\ pc' = "idle"
                /\ UNCHANGED <<master_grid, window>>
           ELSE /\ pc' = "update_costs"
                /\ window' = w
                /\ master_grid' \in MasterInputs
    /\ UNCHANGED <<cfg_vars, life_vars, seed, grid_vars, static_vars, hist_vars, buffer_vars,
                   current_, transformed_footprint_, extra_bounds_, cb, inputs_left,
                   robot, bounds, current, observations, clearing_observations, i,
                   j, cycles_left>>

\* ObstacleLayer::updateCosts(master_grid, min_i, min_j, max_i, max_j)
UpdateCosts ==
    /\ pc = "update_costs"
    /\ LET u == updateCosts(master_grid, window, costmap_)
       IN  /\ costmap_' = u.costmap
           /\ master_grid' = u.master
    /\ pc' = "idle"
    /\ UNCHANGED <<cfg_vars, life_vars, seed, origin_x_, origin_y_, static_vars, hist_vars,
                   buffer_vars, current_, transformed_footprint_, extra_bounds_, cb,
                   inputs_left, robot, bounds, current, observations,
                   clearing_observations, i, j, window, cycles_left>>

(***************************************************************************)
(* The calls of the host between two cycles.                               *)
(***************************************************************************)
\* how many static observations each list may hold in a run
MaxStatic == 1
StaticLimit == IF inputs \in {"skip", "static"} THEN MaxStatic + 1 ELSE MaxStatic

\* ObstacleLayer::addStaticObservation(obs, marking, clearing)
addStaticObservation ==
    /\ pc = "idle"
    /\ inputs_left > 0
    /\ inputs_left' = inputs_left - 1
    /\ \E obs \in InputSet, marking \in BOOLEAN, clearing \in BOOLEAN :
        /\ <<marking, clearing>> \in StaticFlags
        /\ marking => Len(static_marking_observations_) < StaticLimit
        /\ clearing => Len(static_clearing_observations_) < StaticLimit
        /\ static_marking_observations_' =
               IF marking THEN Append(static_marking_observations_, obs)
               ELSE static_marking_observations_
        /\ static_clearing_observations_' =
               IF clearing THEN Append(static_clearing_observations_, obs)
               ELSE static_clearing_observations_
    /\ UNCHANGED <<cfg_vars, life_vars, seed, grid_vars, hist_vars, buffer_vars, cycle_vars,
                   current_, transformed_footprint_, extra_bounds_, cb>>

\* ObstacleLayer::clearStaticObservations(marking, clearing)
clearStaticObservations ==
    /\ pc = "idle"
    /\ \E marking \in BOOLEAN, clearing \in BOOLEAN :
        /\ static_marking_observations_' =
               IF marking THEN <<>> ELSE static_marking_observations_
        /\ static_clearing_observations_' =
               IF clearing THEN <<>> ELSE static_clearing_observations_
    /\ UNCHANGED <<cfg_vars, life_vars, seed, grid_vars, hist_vars, buffer_vars, cycle_vars,
                   current_, transformed_footprint_, extra_bounds_, cb, inputs_left>>

(***************************************************************************)
(* The lifecycle calls of the host, between two cycles.                    *)
(***************************************************************************)
\* how many lifecycle calls the host makes in a run
MaxCalls == 2

\* observation_subscribers_[i]->subscribe() / unsubscribe() for every source
SubscribeAll == [s \in Sources |-> TRUE]
UnsubscribeAll == [s \in Sources |-> FALSE]
\* observation_buffers_[i]->resetLastUpdated() for every buffer
ResetLastUpdatedAll == [s \in Sources |-> TRUE]
\* Costmap2D::resetMaps
resetMaps == [c \in Cells |-> default_value_]

\* ObstacleLayer::activate
activate ==
    /\ pc = "idle"
    /\ host = "idle"
    /\ calls_left > 0
    /\ calls_left' = calls_left - 1
    /\ subscribed_' = SubscribeAll
    /\ is_current_' = ResetLastUpdatedAll
    /\ last_call' = "activate"
    /\ UNCHANGED <<cfg_vars, seed, grid_vars, static_vars, hist_vars, cycle_vars,
                   host, observation_list_, lock_, current_,
                   transformed_footprint_, extra_bounds_, cb, inputs_left>>

\* ObstacleLayer::deactivate
deactivate ==
    /\ pc = "idle"
    /\ host = "idle"
    /\ calls_left > 0
    /\ calls_left' = calls_left - 1
    /\ subscribed_' = UnsubscribeAll
    /\ last_call' = "deactivate"
    /\ UNCHANGED <<cfg_vars, seed, grid_vars, static_vars, hist_vars, cycle_vars,
                   buffer_vars, host, current_, transformed_footprint_,
                   extra_bounds_, cb, inputs_left>>

\* ObstacleLayer::reset: deactivate();
Reset_Deactivate ==
    /\ pc = "idle"
    /\ host = "idle"
    /\ calls_left > 0
    /\ calls_left' = calls_left - 1
    /\ subscribed_' = UnsubscribeAll
    /\ last_call' = "reset"
    /\ host' = "resetMaps"
    /\ UNCHANGED <<cfg_vars, seed, grid_vars, static_vars, hist_vars, cycle_vars,
                   buffer_vars, current_, transformed_footprint_, extra_bounds_,
                   cb, inputs_left>>

\* reset without resetMaps()
Reset_Maps_Missing ==
    /\ host = "resetMaps"
    /\ host' = "current"
    /\ UNCHANGED <<cfg_vars, seed, grid_vars, static_vars, hist_vars, cycle_vars,
                   buffer_vars, subscribed_, last_call, calls_left, current_,
                   transformed_footprint_, extra_bounds_, cb, inputs_left>>

\* ObstacleLayer::reset: resetMaps();
Reset_Maps ==
    /\ host = "resetMaps"
    /\ costmap_' = resetMaps
    /\ host' = "current"
    /\ UNCHANGED <<cfg_vars, seed, origin_x_, origin_y_, static_vars, hist_vars,
                   cycle_vars, buffer_vars, subscribed_, last_call, calls_left,
                   current_, transformed_footprint_, extra_bounds_, cb,
                   inputs_left>>

\* ObstacleLayer::reset: current_ = true;
Reset_Current ==
    /\ host = "current"
    /\ current_' = TRUE
    /\ host' = "activate"
    /\ UNCHANGED <<cfg_vars, seed, grid_vars, static_vars, hist_vars, cycle_vars,
                   buffer_vars, subscribed_, last_call, calls_left,
                   transformed_footprint_, extra_bounds_, cb, inputs_left>>

\* ObstacleLayer::reset: activate(); undeclareAllParameters();
Reset_Activate ==
    /\ host = "activate"
    /\ subscribed_' = SubscribeAll
    /\ is_current_' = ResetLastUpdatedAll
    /\ host' = "idle"
    /\ UNCHANGED <<cfg_vars, seed, grid_vars, static_vars, hist_vars, cycle_vars,
                   last_call, calls_left, observation_list_, lock_, current_,
                   transformed_footprint_, extra_bounds_, cb, inputs_left>>

(***************************************************************************)
(* The layer with its sensor callbacks.                                    *)
(***************************************************************************)
\* the update cycle on the observations the host adds
NextCycle ==
    \/ UB_Begin
    \/ M_Static
    \/ C_Static
    \/ UB_SetCurrent
    \/ UB_RaytraceFreespace
    \/ UB_RaytraceRay
    \/ UB_RaytraceDone
    \/ UB_MarkPoint
    \/ UB_MarkDone
    \/ UB_UpdateFootprint
    \/ LC_UpdateMap
    \/ UpdateCosts
    \/ addStaticObservation

Next ==
    \/ laserScanCallback
    \/ laserScanValidInfCallback
    \/ pointCloud2Callback
    \/ bufferCloudPush
    \/ bufferCloudFill
    \/ CallbackUnlock
    \/ Expire
    \/ M_Lock
    \/ M_Get
    \/ M_Unlock
    \/ C_Lock
    \/ C_Get
    \/ C_Unlock
    \/ clearStaticObservations
    \/ NextCycle

\* the sensor callbacks against the update cycle
Spec == Init /\ [][Next]_vars

\* the lifecycle calls of the host around a cycle, with the sensor callbacks
NextLife ==
    \/ activate
    \/ deactivate
    \/ Reset_Deactivate
    \/ Reset_Maps
    \/ Reset_Current
    \/ Reset_Activate
    \/ Next

InitLife ==
    /\ inputs = "life"
    /\ enabled_ = TRUE
    /\ footprint_clearing_enabled_ = FALSE
    /\ max_obstacle_height_ = MaxHeight
    /\ combination_method_ = 1
    /\ rolling_window_ = FALSE
    /\ default_value_ \in {NO_INFORMATION, FREE_SPACE}
    /\ \E f \in SourceSetups :
          /\ marking_buffers_ = BuffersWith(f.marking, 1)
          /\ clearing_buffers_ = BuffersWith(f.clearing, 1)
          /\ data_type_ = f.types
    /\ inputs_left = 1
    /\ cycles_left = MaxCycles
    /\ calls_left = MaxCalls
    /\ InitLayer

SpecLife == InitLife /\ [][NextLife]_vars

\* a layer without sources, as onInitialize leaves it
InitNoSources ==
    /\ enabled_ = TRUE
    /\ max_obstacle_height_ = MaxHeight
    /\ rolling_window_ = FALSE
    /\ marking_buffers_ = <<>>
    /\ clearing_buffers_ = <<>>
    /\ data_type_ = TypesFrom(0)
    /\ calls_left = 0
    /\ InitLayer

\* raytraceFreespace on one static observation out of RayInputs
InitRay ==
    /\ inputs = "ray"
    /\ footprint_clearing_enabled_ = FALSE
    /\ combination_method_ = 1
    /\ default_value_ = NO_INFORMATION
    /\ inputs_left = 1
    /\ cycles_left = MaxCycles
    /\ InitNoSources

SpecRay == InitRay /\ [][NextCycle]_vars

\* the marking loop on one static observation out of MarkInputs
InitMark ==
    /\ inputs = "mark"
    /\ footprint_clearing_enabled_ \in BOOLEAN
    /\ combination_method_ = 1
    /\ default_value_ = NO_INFORMATION
    /\ inputs_left = 1
    /\ cycles_left = MaxCycles
    /\ InitNoSources

SpecMark == InitMark /\ [][NextCycle]_vars

\* updateCosts under every combination method
InitCombine ==
    /\ inputs = "combine"
    /\ footprint_clearing_enabled_ \in BOOLEAN
    /\ combination_method_ \in 0 .. 2
    /\ default_value_ \in {NO_INFORMATION, FREE_SPACE}
    /\ inputs_left = MaxInputs
    /\ cycles_left = MaxCycles
    /\ InitNoSources

SpecCombine == InitCombine /\ [][NextCycle]_vars

\* the cycle on static observations of which one has its origin off the grid
InitSkip ==
    /\ inputs = "skip"
    /\ footprint_clearing_enabled_ = FALSE
    /\ combination_method_ = 1
    /\ default_value_ = NO_INFORMATION
    /\ inputs_left = MaxInputs
    /\ cycles_left = MaxCycles
    /\ InitNoSources

SpecSkip == InitSkip /\ [][NextCycle]_vars

\* a rolling window that follows the robot over two cycles and more
InitRoll ==
    /\ inputs = "roll"
    /\ enabled_ = TRUE
    /\ max_obstacle_height_ = MaxHeight
    /\ rolling_window_ = TRUE
    /\ marking_buffers_ = <<>>
    /\ clearing_buffers_ = <<>>
    /\ data_type_ = TypesFrom(0)
    /\ footprint_clearing_enabled_ = FALSE
    /\ combination_method_ = 1
    /\ default_value_ = NO_INFORMATION
    /\ inputs_left = MaxInputs
    /\ cycles_left = MaxCycles + 1
    /\ calls_left = 0
    /\ InitLayer

SpecRoll == InitRoll /\ [][NextCycle]_vars

\* the cycle and reset() on a fixed or a rolling window, tracking unknown
\* space or not, with and without footprint clearing
NextGrid ==
    \/ Reset_Deactivate
    \/ Reset_Maps
    \/ Reset_Current
    \/ Reset_Activate
    \/ NextCycle

InitGrid ==
    /\ inputs = "roll"
    /\ enabled_ = TRUE
    /\ max_obstacle_height_ = MaxHeight
    /\ rolling_window_ \in BOOLEAN
    /\ marking_buffers_ = <<>>
    /\ clearing_buffers_ = <<>>
    /\ data_type_ = TypesFrom(0)
    /\ footprint_clearing_enabled_ \in BOOLEAN
    /\ combination_method_ = 1
    /\ default_value_ \in {NO_INFORMATION, FREE_SPACE}
    /\ inputs_left = MaxInputs
    /\ cycles_left = MaxCycles + 1
    /\ calls_left = MaxCalls
    /\ InitLayer

SpecGrid == InitGrid /\ [][NextGrid]_vars

\* the layer with its sources, enabled or disabled by its parameter, on a
\* fixed or a rolling window
InitDisabled ==
    /\ inputs = "disabled"
    /\ enabled_ \in BOOLEAN
    /\ footprint_clearing_enabled_ = TRUE
    /\ max_obstacle_height_ = MaxHeight
    /\ combination_method_ = 1
    /\ rolling_window_ \in BOOLEAN
    /\ default_value_ = NO_INFORMATION
    /\ \E f \in SourceSetups :
          /\ marking_buffers_ = BuffersWith(f.marking, 1)
          /\ clearing_buffers_ = BuffersWith(f.clearing, 1)
          /\ data_type_ = f.types
    /\ inputs_left = 1
    /\ cycles_left = MaxCycles
    /\ calls_left = 0
    /\ InitLayer

SpecDisabled == InitDisabled /\ [][Next]_vars


(***************************************************************************)
(* Properties.                                                             *)
(***************************************************************************)
\* the isCurrent() values read from the buffers of `list` in the running cycle
ReadsOf(list) == SelectSeq(reads, LAMBDA r : r.list = list)
\* updateBounds of an enabled layer has set current_ and not yet returned to
\* the host
AfterSetCurrent ==
    enabled_ /\ pc \in {"raytrace", "mark", "footprint", "ub_done", "update_costs"}
\* updateBounds of an enabled layer has returned
UpdateBoundsDone == enabled_ /\ pc = "ub_done"
\* the last Len(t) elements of s are t
IsSuffix(t, s) ==
    /\ Len(t) <= Len(s)
    /\ \A n \in 1 .. Len(t) : s[Len(s) - Len(t) + n] = t[n]

\* C1: when updateBounds of an enabled layer returns, every clearing buffer
\* has been fetched, the static clearing observations are part of the clearing
\* observations, every clearing observation has been raytraced and the marking
\* loop has gone through every marking observation, whatever isCurrent() said.
C1_StaleNeverBlocks ==
    UpdateBoundsDone =>
        /\ Len(ReadsOf("clearing")) = Len(clearing_buffers_)
        /\ IsSuffix(static_clearing_observations_, clearing_observations)
        /\ traced = Len(clearing_observations)
        /\ IsSuffix(static_marking_observations_, observations)

\* C2: once updateBounds of an enabled layer has set it, current_ is the
\* conjunction of the isCurrent() values read in the cycle; every marking
\* buffer has been read, and so has every clearing buffer unless a marking
\* buffer was stale (which makes the conjunction false whatever they say).
C2_CurrentIsAnd ==
    AfterSetCurrent =>
        /\ current_ = (\A n \in 1 .. Len(reads) : reads[n].value)
        /\ [n \in 1 .. Len(ReadsOf("marking")) |-> ReadsOf("marking")[n].source]
               = marking_buffers_
        /\ (\A n \in 1 .. Len(ReadsOf("marking")) : ReadsOf("marking")[n].value)
               => [n \in 1 .. Len(ReadsOf("clearing")) |-> ReadsOf("clearing")[n].source]
                      = clearing_buffers_

\* C2 witness: two buffers were read, the first fresh and the second stale,
\* and the flag is false
C2_Witness ==
    /\ UpdateBoundsDone
    /\ Len(reads) = 2
    /\ reads[1].value
    /\ ~reads[2].value
    /\ ~current_

\* the buffers whose lock the update cycle holds
HeldByUpdate == {s \in Sources : lock_[s] = "update"}

\* C7: the update cycle holds at most one buffer lock, only between the lock()
\* and the unlock() around the copy of that buffer, and none while it
\* raytraces, marks or updates the footprint.
C7_LockScope ==
    /\ Cardinality(HeldByUpdate) <= 1
    /\ pc \in {"m_get", "m_unlock"} => HeldByUpdate = {marking_buffers_[i]}
    /\ pc \in {"c_get", "c_unlock"} => HeldByUpdate = {clearing_buffers_[i]}
    /\ pc \notin {"m_get", "m_unlock", "c_get", "c_unlock"} => HeldByUpdate = {}

\* C7 witness: the second clearing buffer is locked after the marking buffers
\* and the first clearing buffer have been released
C7_Witness ==
    /\ pc = "c_get"
    /\ i = 2
    /\ Len(marking_buffers_) > 0
    /\ HeldByUpdate = {clearing_buffers_[2]}

\* a callback is inside bufferCloud of source s, or about to unlock it
Inserting(s) == cb[s].pc \in {"bufferCloud", "fill", "unlock"}
\* the update cycle is inside its snapshot of source s
Snapshotting(s) ==
    \/ pc \in {"m_get", "m_unlock"} /\ marking_buffers_[i] = s
    \/ pc \in {"c_get", "c_unlock"} /\ clearing_buffers_[i] = s

\* C8: an insertion into a buffer and a snapshot of it are never in progress
\* together, no snapshot holds a half-inserted observation, and whoever holds a
\* buffer lock is at a step that waits for no lock (so it gets to its unlock).
C8_InsertSnapshotExclusive ==
    /\ \A s \in Sources : ~(Inserting(s) /\ Snapshotting(s))
    /\ \A n \in 1 .. Len(observations) : observations[n] # EmptyObservation
    /\ \A n \in 1 .. Len(clearing_observations) :
           clearing_observations[n] # EmptyObservation
    /\ \A s \in Sources :
           /\ lock_[s] = "callback" <=> Inserting(s)
           /\ lock_[s] = "update" <=> Snapshotting(s)

\* C8 witness: a snapshot of a buffer is taken while the callback of another
\* buffer is in the middle of its insertion, and it holds an observation that
\* a callback has inserted before
C8_Witness ==
    /\ pc = "m_unlock"
    /\ Len(observations) > 0
    /\ \E s \in Sources : cb[s].pc = "fill" /\ ~Snapshotting(s)


\* a cycle has run to its end: updateCosts has returned, or was not called
CycleDone == enabled_ /\ pc = "idle" /\ cycles_left < MaxCycles
\* the cells updateCosts sets to FREE_SPACE under the transformed footprint
C3_UnderFootprint ==
    IF ~footprint_clearing_enabled_ THEN {}
    ELSE {c \in Cells :
            setConvexPolygonCost(transformed_footprint_, FREE_SPACE,
                                 [d \in Cells |-> LETHAL_OBSTACLE])[c] = FREE_SPACE}
\* no marking point is applied before the raytrace loop is over
C3_RaytraceBeforeMark ==
    /\ pc = "raytrace" => marked = {}
    /\ pc = "mark" => traced = Len(clearing_observations)

C4_Dist2(a, b) ==
    RAdd(RMul(RSub(b.x, a.x), RSub(b.x, a.x)), RMul(RSub(b.y, a.y), RSub(b.y, a.y)))
\* e is o + (q - o) * min(1, range / |q - o|), a scaled point to within two
\* units: q itself when q is in range, else a point at distance range from o,
\* next to the ray from o to q and on q's side of o
C4_IsScaledEnd(e, o, q, range) ==
    IF RLe(C4_Dist2(o, q), R(range * range)) THEN e = q
    ELSE LET cross == RSub(RMul(RSub(e.x, o.x), RSub(q.y, o.y)),
                           RMul(RSub(e.y, o.y), RSub(q.x, o.x)))
             dot == RAdd(RMul(RSub(e.x, o.x), RSub(q.x, o.x)),
                         RMul(RSub(e.y, o.y), RSub(q.y, o.y)))
         IN  /\ RLe(R((range - 2) * (range - 2)), C4_Dist2(o, e))
             /\ RLe(C4_Dist2(o, e), R((range + 2) * (range + 2)))
             /\ RLe(RMul(cross, cross), RMul(R(4), C4_Dist2(o, q)))
             /\ RLt(R(0), dot)
\* a step of the raytrace loop that traces a ray
C4_TracesRay == pc = "raytrace" /\ j > 0 /\ ray'.ok
C4_RPt(p) == [x |-> R(p.x), y |-> R(p.y)]

C5_ClippedInsideMap ==
    (pc = "raytrace" /\ ray # NoRay) =>
        /\ ray.ok
        /\ RLe(R(origin_x_), ray.w.x) /\ RLt(ray.w.x, R(map_end_x))
        /\ RLe(R(origin_y_), ray.w.y) /\ RLt(ray.w.y, R(map_end_y))

\* the rank of a cost in the Maximum policy: NO_INFORMATION is the lowest
C6_Rank(cost) == IF cost = NO_INFORMATION THEN -1 ELSE cost
\* what the configured policy makes of a master cell and a local cell
C6_Expected(master, local) ==
    IF combination_method_ = 1
    THEN IF C6_Rank(local) > C6_Rank(master) THEN local ELSE master
    ELSE IF combination_method_ = 0 THEN local
    ELSE master

\* C6: updateCosts of an enabled layer leaves in every cell of the window
\* [min_i, max_i) x [min_j, max_j) of the master grid what the policy makes of
\* the master cell and the local cell (1: the maximum with NO_INFORMATION the
\* lowest, 0: the local cell, else the master cell), and leaves the other
\* cells of the master grid alone.
C6_CombinesPerPolicy ==
    [][(pc = "update_costs" /\ pc' = "idle" /\ enabled_) =>
          \A c \in Cells :
              master_grid'[c] = IF InWindow(c, window)
                                THEN C6_Expected(master_grid[c], costmap_'[c])
                                ELSE master_grid[c]]_vars

\* C6 witness: under the Maximum policy a lethal local cell has replaced a
\* lower master cost, and a cell with no local information has kept its
\* master cost
C6_Witness ==
    /\ CycleDone
    /\ combination_method_ = 1
    /\ \E c \in Cells, d \in Cells :
          /\ InWindow(c, window) /\ InWindow(d, window)
          /\ costmap_[c] = LETHAL_OBSTACLE /\ master_grid[c] = LETHAL_OBSTACLE
          /\ costmap_[d] = NO_INFORMATION /\ master_grid[d] = 100

\* the squared distance of a point to the origin of its observation
C9_SqDist(obs, p) ==
    (p.x - obs.origin_.x) * (p.x - obs.origin_.x)
    + (p.y - obs.origin_.y) * (p.y - obs.origin_.y)
    + (p.z - obs.origin_.z) * (p.z - obs.origin_.z)
\* the point is rejected for its height or for its range; equality rejects
C9_Rejected(obs, p) ==
    \/ p.z > max_obstacle_height_
    \/ C9_SqDist(obs, p) >= obs.obstacle_range_ * obs.obstacle_range_

\* C9: the step of the marking loop on a point that is rejected for its
\* height or its range leaves the grid and the bounds as they are.
C9_RejectedLeavesUnchanged ==
    [][(pc = "mark" /\ i <= Len(observations)
        /\ C9_Rejected(observations[i], observations[i].cloud_[j]))
       => (costmap_' = costmap_ /\ bounds' = bounds)]_vars

\* C9 witness: the marking loop is over a point on the map whose squared
\* distance equals the squared obstacle range, and nothing is marked
C9_Witness ==
    /\ pc = "footprint"
    /\ Len(observations) = 1
    /\ LET obs == observations[1]
           p == obs.cloud_[1]
       IN  /\ p.z <= max_obstacle_height_
           /\ C9_SqDist(obs, p) = obs.obstacle_range_ * obs.obstacle_range_
           /\ InMap(p.x) /\ InMap(p.y)
    /\ marked = {}
    /\ \A c \in Cells : costmap_[c] # LETHAL_OBSTACLE

\* the point is on the grid
C10_OnGrid(p) ==
    /\ origin_x_ <= p.x /\ p.x < origin_x_ + size_x_ * resolution_
    /\ origin_y_ <= p.y /\ p.y < origin_y_ + size_y_ * resolution_
\* the point passes the height check, the range check and the conversion
C10_Accepted(obs, p) ==
    /\ p.z <= max_obstacle_height_
    /\ C9_SqDist(obs, p) < obs.obstacle_range_ * obs.obstacle_range_
    /\ C10_OnGrid(p)
\* the index of the cell of a point on the grid
C10_CellOf(p) ==
    ((p.y - origin_y_) \div resolution_) * size_x_ + ((p.x - origin_x_) \div resolution_)

\* C10: after the marking loop the cell of every accepted marking point is
\* LETHAL_OBSTACLE and the bounds contain the point.
C10_AcceptedIsLethalAndBounded ==
    (enabled_ /\ pc \in {"footprint", "ub_done"}) =>
        \A n \in 1 .. Len(observations) :
            \A k \in 1 .. Len(observations[n].cloud_) :
                LET p == observations[n].cloud_[k]
                IN  C10_Accepted(observations[n], p) =>
                        /\ costmap_[C10_CellOf(p)] = LETHAL_OBSTACLE
                        /\ RLe(bounds.min_x, R(p.x)) /\ RLe(R(p.x), bounds.max_x)
                        /\ RLe(bounds.min_y, R(p.y)) /\ RLe(R(p.y), bounds.max_y)

\* C10 witness: the marking loop is over an accepted point as high as
\* max_obstacle_height allows, in a cell that was unknown before
C10_Witness ==
    /\ pc = "footprint"
    /\ Len(observations) = 1
    /\ clearing_observations = <<>>
    /\ LET obs == observations[1]
           p == obs.cloud_[1]
       IN  /\ C10_Accepted(obs, p)
           /\ p.z = max_obstacle_height_
           /\ marked = {C10_CellOf(p)}


\* the origin of the observation is outside the grid
C11_OffGrid(obs) == ~C10_OnGrid(obs.origin_)
\* the step of the raytrace loop that starts raytraceFreespace on an
\* observation whose origin is outside the grid
C11_StartsOffGrid ==
    /\ pc = "raytrace" /\ j = 0 /\ i <= Len(clearing_observations)
    /\ C11_OffGrid(clearing_observations[i])
\* the raytrace loop has gone through every clearing observation: the origin
\* of each one on the grid is in the bounds and its cell is cleared
C11_OthersTraced ==
    (enabled_ /\ pc \in {"mark", "footprint", "ub_done"}) =>
        /\ traced = Len(clearing_observations)
        /\ \A n \in 1 .. Len(clearing_observations) :
               LET o == clearing_observations[n].origin_
               IN  (C10_OnGrid(o) /\ clearing_observations[n].cloud_ # <<>>) =>
                       /\ C10_CellOf(o) \in cleared
                       /\ RLe(bounds.min_x, R(o.x)) /\ RLe(R(o.x), bounds.max_x)
                       /\ RLe(bounds.min_y, R(o.y)) /\ RLe(R(o.y), bounds.max_y)

\* C11: raytraceFreespace on a clearing observation whose origin is outside the
\* grid changes no cell and leaves the bounds as they are, and the cycle goes
\* on: the other clearing observations are raytraced and the accepted marking
\* points are marked.
C11_OffGridOriginSkipped ==
    /\ [][C11_StartsOffGrid =>
            /\ costmap_' = costmap_
            /\ bounds' = bounds
            /\ pc' = "raytrace" /\ i' = i + 1 /\ j' = 0]_vars
    /\ [](C11_OthersTraced /\ C10_AcceptedIsLethalAndBounded)

\* C11 witness: the first clearing observation had its origin off the grid,
\* the second was raytraced after it, and a marking point was marked
C11_Witness ==
    /\ pc = "footprint"
    /\ Len(clearing_observations) = 2
    /\ C11_OffGrid(clearing_observations[1])
    /\ ~C11_OffGrid(clearing_observations[2])
    /\ cleared # {}
    /\ marked # {}


\* column and row of a cell, and of the cell of a point with rational
\* coordinates on the grid
C12_Col(c) == c % size_x_
C12_Row(c) == c \div size_x_
C12_ColOf(x) == (x[1] - origin_x_ * x[2]) \div (resolution_ * x[2])
C12_RowOf(y) == (y[1] - origin_y_ * y[2]) \div (resolution_ * y[2])
\* round(raytrace_range / resolution)
C12_Cap(range) == (2 * range + resolution_) \div (2 * resolution_)
C12_Max(a, b) == IF a > b THEN a ELSE b
\* the number of steps of a line from cell (x0, y0) to cell (x, y)
C12_Steps(x0, y0, x, y) == C12_Max(Abs(x - x0), Abs(y - y0))
\* cell (x, y) lies on the rasterized line from (x0, y0) to (x1, y1): between
\* the two ends and no more than one cell off the straight line
C12_OnLine(x0, y0, x1, y1, x, y) ==
    /\ (x - x0) * (x - x1) <= 0
    /\ (y - y0) * (y - y1) <= 0
    /\ Abs((x - x0) * (y1 - y0) - (y - y0) * (x1 - x0)) <= C12_Steps(x0, y0, x1, y1)
\* the cells a step changes, or records as cleared
C12_Touched == {c \in Cells : costmap_'[c] # costmap_[c] \/ c \in cleared' \ cleared}

\* C12: a ray of raytraceFreespace sets cells to FREE_SPACE only on the line
\* from the origin cell to the cell of the clipped end point, none of them more
\* than round(raytrace_range / resolution) steps from the origin cell, and it
\* changes no other cell; a skipped ray changes none.
C12_RaytraceRangeCap ==
    [][(pc = "raytrace" /\ j > 0 /\ pc' = "raytrace") =>
          \A c \in C12_Touched :
              /\ ray'.ok
              /\ costmap_'[c] = FREE_SPACE
              /\ C12_Steps(C12_ColOf(R(ray'.o.x)), C12_RowOf(R(ray'.o.y)),
                           C12_Col(c), C12_Row(c)) <= C12_Cap(ray'.range)
              /\ C12_OnLine(C12_ColOf(R(ray'.o.x)), C12_RowOf(R(ray'.o.y)),
                            C12_ColOf(ray'.w.x), C12_RowOf(ray'.w.y),
                            C12_Col(c), C12_Row(c))]_vars

\* C12 witness: the end of a traced ray is more steps from the origin cell than
\* the range allows, and the ray has cleared cells up to the allowed step
C12_Witness ==
    /\ pc = "raytrace"
    /\ ray.ok
    /\ LET x0 == C12_ColOf(R(ray.o.x))
           y0 == C12_RowOf(R(ray.o.y))
       IN  /\ C12_Steps(x0, y0, C12_ColOf(ray.w.x), C12_RowOf(ray.w.y))
                  > C12_Cap(ray.range)
           /\ \E c \in cleared :
                  C12_Steps(x0, y0, C12_Col(c), C12_Row(c)) = C12_Cap(ray.range)
           /\ C12_Cap(ray.range) > 0


\* the local grid is as resetMaps leaves it
C13_GridIsDefault == \A c \in Cells : costmap_[c] = default_value_
\* no source is subscribed / every source is subscribed
C13_NoneSubscribed == \A s \in Sources : ~subscribed_[s]
C13_AllSubscribed == \A s \in Sources : subscribed_[s]
\* the steps of reset() come in order: what the earlier steps have done holds
\* at each later step
C13_ResetInOrder ==
    /\ host \in {"resetMaps", "current", "activate"} => C13_NoneSubscribed
    /\ host \in {"current", "activate"} => C13_GridIsDefault
    /\ host = "activate" => current_
\* between two lifecycle calls the sources are subscribed iff the last call was
\* activate or reset
C13_SubscribedIffActive ==
    (host = "idle" /\ last_call # "none") =>
        IF last_call \in {"activate", "reset"}
        THEN C13_AllSubscribed ELSE C13_NoneSubscribed

\* C13: reset() deactivates, clears the local grid to the default value, sets
\* current_ and activates, in this order; between lifecycle calls the sources
\* are subscribed iff the last call was activate or reset; when reset returns
\* every local cell has the default value, current_ is true, every source is
\* subscribed and every buffer's staleness timer is reset, as it is when
\* activate returns.
C13_ResetSequence ==
    /\ [](C13_ResetInOrder /\ C13_SubscribedIffActive)
    /\ [][(host = "activate" /\ host' = "idle") =>
            /\ \A c \in Cells : costmap_'[c] = default_value_
            /\ current_'
            /\ \A s \in Sources : subscribed_'[s] /\ is_current_'[s]]_vars
    /\ [][(last_call' = "activate" /\ calls_left' < calls_left) =>
            \A s \in Sources : subscribed_'[s] /\ is_current_'[s]]_vars

\* C13 witness: reset has returned after a cycle that marked a cell and read
\* a stale buffer: the grid is back to the default, current_ is true again and
\* the sources are subscribed
C13_Witness ==
    /\ host = "idle"
    /\ last_call = "reset"
    /\ calls_left = 0
    /\ marked # {}
    /\ \E n \in 1 .. Len(reads) : ~reads[n].value
    /\ C13_GridIsDefault
    /\ current_
    /\ C13_AllSubscribed


\* the observations that the buffers of `list` have handed over in the cycle
C14_FromBuffers(list) == Len(ReadsOf(list))

\* C14: in every cycle the static marking observations are the tail of the
\* marking snapshot and the static clearing observations are the tail of the
\* clearing snapshot, in the order they were added and after the observations
\* of the buffers, and the flag of the cycle is that of the buffers alone.
C14_StaticsAppended ==
    AfterSetCurrent =>
        /\ IsSuffix(static_marking_observations_, observations)
        /\ IsSuffix(static_clearing_observations_, clearing_observations)
        /\ C14_FromBuffers("marking") = Len(marking_buffers_)
        /\ current_ = (\A n \in 1 .. Len(reads) : reads[n].value)


\* the footprint at the pose of the running cycle: a rectangle around the
\* robot, its sides swapped by a quarter turn
C15_HalfX == IF robot.yaw % 2 = 0 THEN FootHalfX ELSE FootHalfY
C15_HalfY == IF robot.yaw % 2 = 0 THEN FootHalfY ELSE FootHalfX
C15_Corners ==
    {[x |-> robot.x + dx, y |-> robot.y + dy] :
        dx \in {-C15_HalfX, C15_HalfX}, dy \in {-C15_HalfY, C15_HalfY}}
\* the cells with a point of that rectangle
C15_Inside ==
    {c \in Cells :
        /\ (robot.x - C15_HalfX - origin_x_) \div resolution_ <= c % size_x_
        /\ c % size_x_ <= (robot.x + C15_HalfX - origin_x_) \div resolution_
        /\ (robot.y - C15_HalfY - origin_y_) \div resolution_ <= c \div size_x_
        /\ c \div size_x_ <= (robot.y + C15_HalfY - origin_y_) \div resolution_}
\* updateFootprint has left the footprint of this cycle's pose, and the bounds
\* contain its vertices
C15_VerticesInBounds ==
    (enabled_ /\ footprint_clearing_enabled_ /\ pc \in {"ub_done", "update_costs"}) =>
        /\ {transformed_footprint_[n] : n \in 1 .. Len(transformed_footprint_)}
               = C15_Corners
        /\ \A v \in C15_Corners :
               /\ RLe(bounds.min_x, R(v.x)) /\ RLe(R(v.x), bounds.max_x)
               /\ RLe(bounds.min_y, R(v.y)) /\ RLe(R(v.y), bounds.max_y)

C16_FootprintSkipped ==
    [][(enabled_ /\ ~footprint_clearing_enabled_) =>
          /\ (pc = "footprint" /\ pc' = "ub_done") =>
                 (transformed_footprint_' = transformed_footprint_ /\ bounds' = bounds)
          /\ (pc = "update_costs" /\ pc' = "idle") => costmap_' = costmap_]_vars

\* C16 witness: footprint clearing is disabled, and at the end of a cycle a
\* marked cell under the robot is still lethal, no footprint was computed and
\* the bounds hold no corner of the footprint
C16_Witness ==
    /\ CycleDone
    /\ ~footprint_clearing_enabled_
    /\ transformed_footprint_ = <<>>
    /\ window # NoWindow
    /\ \E c \in marked \cap C15_Inside : costmap_[c] = LETHAL_OBSTACLE
    /\ \A v \in C15_Corners :
          ~(/\ RLe(bounds.min_x, R(v.x)) /\ RLe(R(v.x), bounds.max_x)
            /\ RLe(bounds.min_y, R(v.y)) /\ RLe(R(v.y), bounds.max_y))


\* C17: no clipping branch of a ray from an origin on the grid divides by a
\* zero component of the ray: the component a branch divides by is non-zero
\* whenever the branch is taken, also after earlier branches have moved the
\* end point.
C17_NoDivisionByZero ==
    (pc = "raytrace" /\ ray # NoRay) =>
        \A d \in ray.divs : d.by # R(0) /\ IsFinite(d.by)

\* C17 witness: a ray parallel to the y axis (a = 0) from an origin on the
\* grid was clipped, by a branch that divides by b
C17_Witness ==
    /\ pc = "raytrace"
    /\ ray # NoRay
    /\ ray.p.x = ray.o.x
    /\ ray.divs # {}
    /\ \A d \in ray.divs : d.branch \in {"min_y", "max_y"}


\* the step moves the origin of the grid
C18_OriginShifts == origin_x_' # origin_x_ \/ origin_y_' # origin_y_

\* C18: the origin of a rolling window moves only in the step that starts a
\* cycle, out of the idle state in which the cycle before has finished its
\* updateCosts, and so once per cycle at most and before anything of the cycle
\* is read, cleared or marked; no step from the snapshot to the end of
\* updateCosts moves it.
C18_ShiftOnlyAtCycleStart ==
    [][/\ C18_OriginShifts =>
             /\ rolling_window_
             /\ pc = "idle" /\ host = "idle" /\ pc' = "m_lock"
             /\ cycles_left' = cycles_left - 1
             /\ reads' = <<>> /\ traced' = 0 /\ cleared' = {} /\ marked' = {}
             /\ observations' = <<>> /\ clearing_observations' = <<>>
       /\ pc # "idle" => ~C18_OriginShifts]_vars

\* C18 witness: in the second cycle the origin is off its first place, and
\* the cycle has cleared and marked cells on the grid as moved
C18_Witness ==
    /\ rolling_window_
    /\ cycles_left < MaxCycles
    /\ pc = "footprint"
    /\ origin_x_ # 0
    /\ cleared # {}
    /\ marked # {}


\* rectangle b is rectangle a or a grown: no min larger, no max smaller
C19_Grows(a, b) ==
    /\ RLe(b.min_x, a.min_x) /\ RLe(b.min_y, a.min_y)
    /\ RLe(a.max_x, b.max_x) /\ RLe(a.max_y, b.max_y)
\* the point (x, y) is in the bounds
C19_InBounds(x, y) ==
    /\ RLe(bounds.min_x, R(x)) /\ RLe(R(x), bounds.max_x)
    /\ RLe(bounds.min_y, R(y)) /\ RLe(R(y), bounds.max_y)
\* updateBounds is running
C19_InUpdateBounds ==
    enabled_ /\ pc \notin {"idle", "ub_done", "update_costs"}
\* when updateBounds returns the bounds contain the origin of every clearing
\* observation on the grid, every accepted marking point, and the vertices of
\* the footprint if it was transformed in the cycle
C19_ContainsAllTouched ==
    (enabled_ /\ pc = "ub_done") =>
        /\ \A n \in 1 .. Len(clearing_observations) :
               C10_OnGrid(clearing_observations[n].origin_) =>
                   C19_InBounds(clearing_observations[n].origin_.x,
                                clearing_observations[n].origin_.y)
        /\ \A n \in 1 .. Len(observations) :
               \A k \in 1 .. Len(observations[n].cloud_) :
                   C10_Accepted(observations[n], observations[n].cloud_[k]) =>
                       C19_InBounds(observations[n].cloud_[k].x,
                                    observations[n].cloud_[k].y)
        /\ footprint_clearing_enabled_ =>
               \A v \in C15_Corners : C19_InBounds(v.x, v.y)

\* C19: in one updateBounds call the bounds only grow, from the values the
\* caller has passed in: no step raises min_x or min_y or lowers max_x or
\* max_y, and at the end the bounds contain the caller's rectangle, the origin
\* of every traced observation, every accepted marking point and every vertex
\* of the footprint touched in the cycle.
C19_BoundsOnlyGrow ==
    /\ [][/\ C19_InUpdateBounds => C19_Grows(bounds, bounds')
          /\ (pc = "idle" /\ pc' # "idle") => C19_Grows(seed', bounds')]_vars
    /\ []((enabled_ /\ pc # "idle") => C19_Grows(seed, bounds))
    /\ []C19_ContainsAllTouched

\* C19 witness: updateBounds returns with bounds grown beyond a rectangle the
\* caller had passed in, after a ray, a marked point and the footprint
C19_Witness ==
    /\ enabled_ /\ pc = "ub_done"
    /\ seed # NoBounds
    /\ bounds # seed
    /\ ray.ok
    /\ marked # {}
    /\ footprint_clearing_enabled_


\* the hit point of the ray the step is about
C20_Hit == clearing_observations[i].cloud_[j]
C20_Origin == clearing_observations[i].origin_
\* origin and hit point are on the grid and the raytrace range covers the hit
\* point
C20_InsideAndInRange ==
    /\ pc = "raytrace" /\ j > 0
    /\ C10_OnGrid(C20_Origin) /\ C10_OnGrid(C20_Hit)
    /\ (C20_Hit.x - C20_Origin.x) * (C20_Hit.x - C20_Origin.x)
       + (C20_Hit.y - C20_Origin.y) * (C20_Hit.y - C20_Origin.y)
           <= clearing_observations[i].raytrace_range_
              * clearing_observations[i].raytrace_range_
\* the line from the origin cell to the cell of the hit point is no longer, in
\* cells, than round(raytrace_range / resolution)
C20_LineInCellRange ==
    LET dx == C12_ColOf(R(C20_Hit.x)) - C12_ColOf(R(C20_Origin.x))
        dy == C12_RowOf(R(C20_Hit.y)) - C12_RowOf(R(C20_Origin.y))
        cap == C12_Cap(clearing_observations[i].raytrace_range_)
    IN  dx * dx + dy * dy <= cap * cap
\* the step has set to FREE_SPACE a rasterized line from the origin cell to
\* the cell of the hit point, both ends included: one cell for every step of
\* the line, each of them on the line; and the bounds hold origin and hit point
C20_LineCleared ==
    LET x0 == C12_ColOf(R(C20_Origin.x))
        y0 == C12_RowOf(R(C20_Origin.y))
        x1 == C12_ColOf(R(C20_Hit.x))
        y1 == C12_RowOf(R(C20_Hit.y))
        line == cleared' \ cleared
    IN  /\ ray'.ok
        /\ getIndex(x0, y0) \in cleared' /\ getIndex(x1, y1) \in cleared'
        /\ \A k \in 0 .. C12_Steps(x0, y0, x1, y1) :
               \E c \in cleared' :
                   /\ C12_Steps(x0, y0, C12_Col(c), C12_Row(c)) = k
                   /\ C12_OnLine(x0, y0, x1, y1, C12_Col(c), C12_Row(c))
                   /\ costmap_'[c] = FREE_SPACE
        /\ \A c \in line : C12_OnLine(x0, y0, x1, y1, C12_Col(c), C12_Row(c))
        /\ RLe(bounds'.min_x, R(C20_Origin.x)) /\ RLe(R(C20_Origin.x), bounds'.max_x)
        /\ RLe(bounds'.min_y, R(C20_Origin.y)) /\ RLe(R(C20_Origin.y), bounds'.max_y)
        /\ RLe(bounds'.min_x, R(C20_Hit.x)) /\ RLe(R(C20_Hit.x), bounds'.max_x)
        /\ RLe(bounds'.min_y, R(C20_Hit.y)) /\ RLe(R(C20_Hit.y), bounds'.max_y)

\* C20 as stated: a ray whose origin and hit point are on the grid and whose
\* raytrace range covers the hit point sets to FREE_SPACE every cell of the
\* line from the origin cell to the cell of the hit point, both included, and
\* the bounds afterwards contain the origin and the hit point.
C20_LineClearedInRange ==
    [][C20_InsideAndInRange => C20_LineCleared]_vars

\* C20 amended: the same, for a ray whose range also covers the line in
\* cells: round(raytrace_range / resolution) is at least the length of the
\* line from the origin cell to the cell of the hit point; the ray of the
\* example (4 cells along a row, range 10 cells) is such a ray.
C20_LineClearedInCellRange ==
    [][(C20_InsideAndInRange /\ C20_LineInCellRange) => C20_LineCleared]_vars

\* C20 witness: the ray of the example on this grid: from the middle of the
\* first cell of a row to just before the end of the map, with a range beyond
\* the map; the row is cleared and the bounds span from the sensor to the hit
C20_Witness ==
    /\ pc = "raytrace"
    /\ ray.ok
    /\ ray.o = Pt(Mid(0), Mid(1), 0)
    /\ ray.p = Pt(MapEnd - Epsilon, Mid(1), 0)
    /\ ray.range = 3 * MapEnd
    /\ cleared = {getIndex(x, 1) : x \in 0 .. (Size - 1)}
    /\ \A c \in cleared : costmap_[c] = FREE_SPACE
    /\ bounds.min_x = R(Mid(0)) /\ bounds.max_x = R(MapEnd - Epsilon)


\* the cells a step gives another value
C21_Changed == {c \in Cells : costmap_'[c] # costmap_[c]}
\* a step of updateBounds or updateCosts
C21_CycleStep == pc # "idle" \/ pc' # "idle"
\* the step of updateBounds that shifts the origin of a rolling window
C21_ShiftStep == rolling_window_ /\ pc = "idle" /\ pc' # "idle"
\* a step of reset()
C21_ResetStep == host # "idle" \/ host' # "idle"
\* every cell holds FREE_SPACE, LETHAL_OBSTACLE or the default value, which is
\* NO_INFORMATION or FREE_SPACE
C21_CellValues ==
    /\ default_value_ \in {NO_INFORMATION, FREE_SPACE}
    /\ \A c \in Cells : costmap_[c] \in {FREE_SPACE, LETHAL_OBSTACLE, default_value_}

\* C21 as stated: in every reachable state every cell of the local grid holds
\* FREE_SPACE, LETHAL_OBSTACLE or the default value; updateBounds and
\* updateCosts write nothing but LETHAL_OBSTACLE and FREE_SPACE into the local
\* grid, and reset writes nothing but the default value.
C21_OnlyLethalOrFreeWritten ==
    /\ []C21_CellValues
    /\ [][/\ C21_CycleStep =>
               \A c \in C21_Changed : costmap_'[c] \in {LETHAL_OBSTACLE, FREE_SPACE}
          /\ C21_ResetStep =>
               \A c \in C21_Changed : costmap_'[c] = default_value_]_vars

\* C21 amended: the same, but the origin shift of a rolling window at the
\* start of updateBounds also writes the default value (into the cells that
\* come into the window); every other step of updateBounds and updateCosts
\* writes nothing but LETHAL_OBSTACLE and FREE_SPACE.
C21_CellsFreeLethalOrDefault ==
    /\ []C21_CellValues
    /\ [][/\ (C21_CycleStep /\ ~C21_ShiftStep) =>
               \A c \in C21_Changed : costmap_'[c] \in {LETHAL_OBSTACLE, FREE_SPACE}
          /\ C21_ShiftStep =>
               \A c \in C21_Changed :
                   costmap_'[c] \in {LETHAL_OBSTACLE, FREE_SPACE, default_value_}
          /\ C21_ResetStep =>
               \A c \in C21_Changed : costmap_'[c] = default_value_]_vars

\* C21 witness: the three values side by side in a grid that tracks unknown
\* space, after a cycle that has marked and cleared
C21_Witness ==
    /\ default_value_ = NO_INFORMATION
    /\ pc = "idle" /\ cycles_left < MaxCycles + 1
    /\ marked # {} /\ cleared # {}
    /\ \E a, b, c \in Cells :
        /\ costmap_[a] = FREE_SPACE
        /\ costmap_[b] = LETHAL_OBSTACLE
        /\ costmap_[c] = NO_INFORMATION


\* the step in which updateBounds starts, and with a disabled layer returns
C22_UpdateBoundsStep == pc = "idle" /\ pc' # "idle"
\* the step of updateCosts
C22_UpdateCostsStep == pc = "update_costs" /\ pc' = "idle"
\* a double cut to an int, as the cast in updateOrigin does it
C22_Trunc(n, d) == IF n >= 0 THEN n \div d ELSE -((-n) \div d)
\* the origin o of a window of `size` cells once it is centred on a robot at
\* r: moved by the whole cells between o and r minus half the window
C22_Shifted(o, r, size) ==
    o + C22_Trunc(4 * (r - o) - (2 * size - 1) * resolution_, 4 * resolution_)
        * resolution_

\* C22: with the layer disabled a cycle changes nothing but the origin of a
\* rolling window: updateBounds returns at once, leaves the cells, the
\* rectangle handed in and current_ as they are and takes no buffer lock, but
\* has first moved the origin of a rolling window under the robot; updateCosts
\* leaves the local grid and the master grid as they are.
C22_DisabledCycleChangesNothing ==
    /\ [](~enabled_ =>
            /\ HeldByUpdate = {}
            /\ pc \in {"idle", "ub_done", "update_costs"}
            /\ pc \in {"ub_done", "update_costs"} => bounds = seed)
    /\ [][~enabled_ =>
            /\ C22_UpdateBoundsStep =>
                 /\ pc' = "ub_done"
                 /\ costmap_' = costmap_
                 /\ current_' = current_
                 /\ lock_' = lock_
                 /\ origin_x_' = IF rolling_window_
                                 THEN C22_Shifted(origin_x_, robot'.x, size_x_)
                                 ELSE origin_x_
                 /\ origin_y_' = IF rolling_window_
                                 THEN C22_Shifted(origin_y_, robot'.y, size_y_)
                                 ELSE origin_y_
            /\ C22_UpdateCostsStep =>
                 /\ costmap_' = costmap_
                 /\ master_grid' = master_grid
            /\ pc' # pc =>
                 UNCHANGED <<costmap_, current_, static_vars, buffer_vars,
                             transformed_footprint_, extra_bounds_>>
            /\ ~C22_UpdateBoundsStep => UNCHANGED <<origin_x_, origin_y_>>]_vars

\* C22 witness: a disabled layer on a rolling window after a cycle: the origin
\* has moved, updateCosts has been called on a window of a master grid with
\* costs of the other layers in it, and a sensor has filled its buffer
C22_Witness ==
    /\ ~enabled_
    /\ rolling_window_
    /\ pc = "idle" /\ cycles_left < MaxCycles
    /\ origin_x_ # 0
    /\ window # NoWindow
    /\ master_grid = MasterMixed4
    /\ \E s \in Sources : observation_list_[s] # <<>>
    /\ \A c \in Cells : costmap_[c] = default_value_
    /\ current_

=============================================================================
